---- MODULE Spec2Model ----
(***************************************************************************)
(* A state-machine model of the AHP XC cross-correlator driver             *)
(* (src/indi-ahp-xc/indi_ahp_xc.cpp): the reader thread AHP_XC::Callback,  *)
(* the integration cycle (StartIntegration / AbortIntegration), the delay  *)
(* compensation pass, the per-cycle buffers and their serialization.       *)
(*                                                                         *)
(* Two threads share the object without a lock: the reader thread runs     *)
(* Callback; the framework's event loop runs every other handler, one at a *)
(* time.  Each shared-memory access that matters is its own step.          *)
(*                                                                         *)
(* Geometry is one-dimensional: antennas sit on one axis at integer        *)
(* positions and the sky direction is the cosine (-1, 0 or 1) of its angle *)
(* to that axis, so that every projection the code computes is an integer. *)
(***************************************************************************)
EXTENDS Integers, Sequences, FiniteSets

\* ------------------------------------------------------------- bounds
NLines == 3          \* ahp_xc_get_nlines(): lines the hardware reports
MaxDur == 2          \* requested durations 1..MaxDur
MaxPackets == 3      \* ready packets the hardware delivers, one per clock instant
MaxPos == 2          \* antenna positions 0..MaxPos on the axis
ClockScale == 2      \* ahp_xc_get_frequency() / LIGHTSPEED, clocks per metre
DelaySize == 3       \* ahp_xc_get_delaysize(): depth of the delay lines
AutoLagSize == 2     \* ahp_xc_get_autocorrelator_lagsize()
CrossLagSize == 2    \* ahp_xc_get_crosscorrelator_lagsize()
MaxPlotSize == 2     \* plot sizes 1..MaxPlotSize, in steps of the setting

\* ------------------------------------------------------------- program constants
nplots == 1

\* ------------------------------------------------------------- tables
Lines == 0 .. NLines - 1
NBaselines == (NLines * (NLines - 1)) \div 2
Baselines == 0 .. NBaselines - 1
PairSet == {p \in Lines \X Lines : p[1] < p[2]}

\* idx of the pair (x, y), x < y, as the nested loops count it
PairIdx(x, y) == x * NLines - (x * (x + 1)) \div 2 + (y - x - 1)

\* the pairs in the order the nested loops visit them
PairSeq == [i \in 1 .. NBaselines |-> CHOOSE p \in PairSet : PairIdx(p[1], p[2]) = i - 1]

Durations == 1 .. MaxDur
PlotSizes == 1 .. MaxPlotSize
Dirs == {-1, 0, 1}
Positions == 0 .. MaxPos

\* rows of a stream buffer: a packet's number, or one of these two
Garbage == -1        \* allocated, never written
Zeroed == 0          \* written by dsp_buffer_set(.., 0)

Abs(v) == IF v < 0 THEN -v ELSE v
Sign(v) == IF v < 0 THEN -1 ELSE IF v > 0 THEN 1 ELSE 0
Min(S) == CHOOSE m \in S : \A o \in S : m <= o

RECURSIVE Sum(_, _)
Sum(f, S) == IF S = {} THEN 0 ELSE LET e == CHOOSE e \in S : TRUE IN f[e] + Sum(f, S \ {e})

VARIABLES
    connected,            \* isConnected()
    threadsRunning,
    timerArmed,           \* a SetTimer is pending
    lineEnable,           \* lineEnableSP[x].sp[0].s == ISS_ON
    lineLocation,         \* lineLocationNP[x].np[0].value
    baselines,            \* baselines[idx]'s vector
    InIntegration, IntegrationRequest, ExpStart, timeleft,
    now,                  \* gettimeofday, in packet periods
    spc,                  \* where StartIntegration stands
    ret,                  \* what the last StartIntegration call returned
    rpc,                  \* where the reader stands
    pkt,                  \* ready packets delivered so far (the packet's number)
    autocorrelations_str, crosscorrelations_str,   \* rows, oldest first
    plot_str,             \* values added to the preview since it was zeroed
    plotB, autocorrelationsB, crosscorrelationsB,  \* output slots
    delay,                \* delay[x]
    totalcounts, totalcorrelations,
    crashed,
    \* history
    finCur,               \* no StartIntegration was accepted since the reader chose,
                          \* at line 200, to finalize the cycle
    finAborted,           \* AbortIntegration ended that cycle after the reader chose
    rfin,                 \* this iteration finalized
    ser,                  \* createFITS calls of the last finalize, per buffer
    emitLog,              \* IDSetBLOB calls of the last finalize
    appended,             \* packets appended since connect or the last finalize
    hwcmds,               \* channel commands of this iteration
    passEn,               \* lines enabled when this iteration reached line 198
    passDir,              \* the sky direction lines 292-294 gave the pass of the
                          \* iteration in progress, 0 outside one
    iterDelay,            \* this iteration ran the delay compensation
    firstUsed,            \* `first' as lines 319-321 last used it
    \* environment
    fitsMayFail,          \* the FITS library can run out of memory
    fitsFail,             \* the createFITS call that returns nullptr in this finalize
    plotSize,             \* settingsN[2], the preview's width and height
    fgAlloc,              \* history: a foreground handler reallocated a buffer during
                          \* a cycle
    freed,                \* Disconnect freed the streams, Handshake has not made new ones
    capture,              \* capture enabled in the hardware by the driver
    hsRet,                \* what the last Handshake returned, "none" before the first
    hsStep,               \* the check the last Handshake failed at, "none" if it passed
    plot_buf,             \* the preview's pixels, row after row
    blobLog,              \* the memcpy calls of the finalize in progress: the blob's
                          \* allocated size, the offset and the length of each
    pw, pxx, pyy,         \* a preview width and a pair of truncated offsets handed to
    written, plotted,     \* the pixel update, the indices it wrote, and whether it ran
    wavelength, bandwidth,  \* settingsN[0] and settingsN[1], scaled
    lowfreq, highfreq,      \* SpectrographSettingsN[SPECTROGRAPH_LOWFREQ] and [..._HIGHFREQ]
    baseline_wavelength,    \* the wavelength each baseline was last given
    linePower,            \* linePowerSP[x].sp[0]: power on
    lineActiveLow,        \* lineActiveEdgeSP[x].sp[1]: active edge low
    lineEdgeTrigger,      \* lineEdgeTriggerSP[x].sp[1]: triggered on edge
    lineDifferential,     \* lineDifferentialSP[x].sp[0]: differential sampling; sp[1] is
                          \* its complement, the vector being one-of-many
    leds,                 \* the flags last sent for each line with ahp_xc_set_leds
    has_leds,             \* ahp_xc_has_leds()
    tpc, tx,              \* where TimerHit stands when followed statement by statement:
                          \* "idle", or at the report or the reset of line tx
    reported,             \* the sum of the totals each line's reports have published
    consumed,             \* the sum of the counts the reader has added for each line
    packet,               \* the packet the reader allocated last: "none" once freed,
                          \* "held" while the reader has it, "lost" when the reader
                          \* dropped the pointer without freeing it
    auto_dims, cross_dims, \* sizes[0], sizes[1] and len of every stream
    afterFree             \* history: the reader used a stream, or programmed the
                          \* hardware, after Disconnect freed the streams

envvars == <<connected, threadsRunning, timerArmed>>
cfgvars == <<lineEnable, lineLocation, baselines>>
cyclevars == <<InIntegration, IntegrationRequest, ExpStart>>
fgvars == <<spc, ret>>
rdvars == <<rpc, pkt, now, timeleft>>
bufvars == <<autocorrelations_str, crosscorrelations_str, plot_str>>
slotvars == <<plotB, autocorrelationsB, crosscorrelationsB>>
totvars == <<totalcounts, totalcorrelations>>
passvars == <<delay, hwcmds, iterDelay, firstUsed, passEn, passDir, crashed>>
finvars == <<finCur, finAborted, rfin, ser, emitLog, appended>>
encvars == <<fitsMayFail, fitsFail>>
setvars == <<plotSize, fgAlloc>>
tdvars == <<freed, afterFree>>
hsvars == <<capture, hsRet, hsStep>>
dimvars == <<auto_dims, cross_dims>>
imgvars == <<plot_buf>>
pktvars == <<packet>>
racevars == <<tpc, tx, reported, consumed>>
ledvars == <<linePower, lineActiveLow, lineEdgeTrigger, lineDifferential, leds, has_leds>>
bandvars == <<wavelength, bandwidth, lowfreq, highfreq, baseline_wavelength>>
pxvars == <<pw, pxx, pyy, written, plotted>>
blobvars == <<blobLog>>

vars == <<envvars, cfgvars, cyclevars, fgvars, rdvars, bufvars, slotvars, totvars,
          passvars, finvars, encvars, setvars, tdvars, hsvars, dimvars,
          imgvars, pktvars, racevars, ledvars, bandvars, pxvars, blobvars>>

\* createFITS calls of a finalize, in the order lines 209-280 make them; NoFail is none
NoFail == <<"none", 0>>
FitsCalls ==
    ({"plot"} \X (0 .. nplots - 1)) \cup ({"auto"} \X Lines) \cup ({"cross"} \X Baselines)

NoSlot == [set |-> FALSE, src |-> -1, rows |-> <<>>]
NoSer == [plot |-> 0, auto |-> [x \in Lines |-> 0], cross |-> [i \in Baselines |-> 0], n |-> 0]

\* ------------------------------------------------------------- stream dimensions
\* a stream's sizes[0], sizes[1] and len; NoDim where no stream exists
NoDim == [w |-> 0, h |-> 0, len |-> 0]

\* lines 1086-1089 and 1119-1122: dsp_stream_new, then add_dim(w) and add_dim(1),
\* each multiplying len by the size it adds
NewDim(w) == [w |-> w, h |-> 1, len |-> (1 * w) * 1]

\* an append that lengthens the buffer by one element
AppendDimOneElement(d) == [w |-> d.w, h |-> d.h + 1, len |-> d.len + 1]

\* lines 401-402 and 414-415
AppendDim(d) == [w |-> d.w, h |-> d.h + 1, len |-> d.len + d.w]

\* lines 248 and 276: dsp_stream_set_dim(stream, 1, 1) stores the size and takes len
\* as the product of the sizes
ResetDim(d) == [w |-> d.w, h |-> 1, len |-> d.w * 1]

\* lines 1087 and 1120
AutoWidth == AutoLagSize
CrossWidth == CrossLagSize * 2 - 1

\* the dimensions Handshake gives the streams
ConnectedAutoDims == [x \in Lines |-> IF AutoLagSize > 1 THEN NewDim(AutoWidth) ELSE NoDim]
ConnectedCrossDims ==
    [i \in Baselines |-> IF CrossLagSize > 1 THEN NewDim(CrossWidth) ELSE NoDim]

\* ------------------------------------------------------------- the preview image
\* the preview's width and height in pixels for settingsN[2] = size; the setting moves
\* in even steps, so the width is even
PlotWidth(size) == 2 * size

\* lines 673-675 on a new stream: the pixels are allocated and not written
GarbageImage(size) == [z \in 1 .. PlotWidth(size) * PlotWidth(size) |-> Garbage]

\* lines 673-675 on a stream that has a buffer: realloc keeps the leading elements
\* and does not write the ones it adds
ResizeImage(buf, size) ==
    [z \in 1 .. PlotWidth(size) * PlotWidth(size) |->
        IF z <= Len(buf) THEN buf[z] ELSE Garbage]

\* line 226
ZeroImage(buf) == [z \in 1 .. Len(buf) |-> Zeroed]

\* static_cast<int> of a quotient: towards zero
TruncDiv(a, b) == Sign(a) * (Abs(a) \div b)

\* lines 378-380: the baseline's projection on the plane across the source direction,
\* in units of the longest baseline, scaled to half the width; v is 0 on one axis
PlotXX(dir, idx, w) == TruncDiv(w * baselines[idx] * (1 - Abs(dir)), 2 * MaxPos)
PlotYY(dir, idx, h) == 0

\* the test with the upper limit of xx included
PlotInBoundsInclusive(xx, yy, w, h) ==
    /\ xx >= -(w \div 2) /\ xx <= w \div 2
    /\ yy >= -(w \div 2) /\ yy < h \div 2

\* line 382: the test that guards the two writes (w / 2 and -w / 2 are C's
\* divisions: towards zero)
PlotInBounds(xx, yy, w, h) ==
    /\ xx >= -(w \div 2) /\ xx < w \div 2
    /\ yy >= -(w \div 2) /\ yy < h \div 2

\* line 381
PlotIndex(xx, yy, w, h) == (w * h) \div 2 + w \div 2 + xx + yy * w

\* lines 384-389: the indices of the two pixels written, none when the test fails
PlotWrites(xx, yy, w, h) ==
    IF PlotInBounds(xx, yy, w, h)
    THEN {PlotIndex(xx, yy, w, h), w * h - 1 - PlotIndex(xx, yy, w, h)}
    ELSE {}

\* lines 384-389 for one pixel; an unwritten pixel plus a value is no known value
AddPixel(buf, z) == [buf EXCEPT ![z + 1] = IF @ = Garbage THEN Garbage ELSE @ + 1]

\* lines 369-394 from the i-th pair on: the preview after the update
RECURSIVE PlotPass(_, _, _, _)
PlotPass(i, dir, w, buf) ==
    IF i > NBaselines THEN buf
    ELSE LET x == PairSeq[i][1]
             y == PairSeq[i][2]
             xx == PlotXX(dir, i - 1, w)
             yy == PlotYY(dir, i - 1, w)
             z == PlotIndex(xx, yy, w, w)
         IN  IF lineEnable[x] /\ lineEnable[y] /\ PlotInBounds(xx, yy, w, w)
             THEN PlotPass(i + 1, dir, w, AddPixel(AddPixel(buf, z), w * w - 1 - z))
             ELSE PlotPass(i + 1, dir, w, buf)

\* ------------------------------------------------------------- the output blob
\* sizeof(double); the FITS block of line 134; the size line 126 starts every file at
ElementBytes == 8
FitsBlock == 2880
FitsInitial == 5760

\* blocks holding n bytes
BlocksFor(n) == (n + FitsBlock - 1) \div FitsBlock

\* *memsize when createFITS returns a file: the memory file starts at FitsInitial
\* bytes and is grown, block by block, to hold a header block and the data
FitsSize(len) ==
    LET need == FitsBlock * (1 + BlocksFor(len * ElementBytes))
    IN  IF need > FitsInitial THEN need ELSE FitsInitial

\* lines 215-225, 237-247 and 265-275 from the k-th buffer of a group on: the blob is
\* resized to memsize + next_size, createFITS overwrites memsize, the block is copied
\* to blob[memsize] and memsize grows by next_size.  lens are the streams' lengths,
\* fails the buffers createFITS returns nullptr for, copied the lengths copied so far.
RECURSIVE BlobCopies(_, _, _, _, _, _)
BlobCopies(lens, fails, k, memsize, copied, log) ==
    IF k > Len(lens) THEN log
    ELSE LET next_size == lens[k] * ElementBytes
             alloc == memsize + next_size
         IN  IF k \in fails
             THEN BlobCopies(lens, fails, k + 1, FitsInitial, copied, log)
             ELSE BlobCopies(lens, fails, k + 1, FitsSize(lens[k]) + next_size,
                             copied + next_size,
                             Append(log, [alloc |-> alloc, off |-> FitsSize(lens[k]),
                                          n |-> next_size, copied |-> copied]))

\* ------------------------------------------------------------- construction
\* lines 446-501: nothing is integrating, the timer is set, the reader thread starts
Init ==
    /\ connected = FALSE
    /\ threadsRunning = TRUE
    /\ timerArmed = TRUE
    /\ lineEnable = [x \in Lines |-> FALSE]
    /\ lineLocation = [x \in Lines |-> 0]
    /\ baselines = [i \in Baselines |-> 0]
    /\ InIntegration = FALSE
    /\ IntegrationRequest = 0
    /\ ExpStart = Garbage          \* the constructor leaves it unset
    /\ timeleft = 0
    /\ now = 0
    /\ spc = "idle"
    /\ ret = "none"
    /\ rpc = "loop"
    /\ pkt = 0
    /\ autocorrelations_str = [x \in Lines |-> <<>>]
    /\ crosscorrelations_str = [i \in Baselines |-> <<>>]
    /\ plot_str = 0
    /\ plotB = NoSlot
    /\ autocorrelationsB = [x \in Lines |-> NoSlot]
    /\ crosscorrelationsB = [i \in Baselines |-> NoSlot]
    /\ delay = [x \in Lines |-> Garbage]
    /\ totalcounts = [x \in Lines |-> 0]
    /\ totalcorrelations = [i \in Baselines |-> 0]
    /\ crashed = FALSE
    /\ finCur = FALSE
    /\ finAborted = FALSE
    /\ rfin = FALSE
    /\ ser = NoSer
    /\ emitLog = {}
    /\ appended = 0
    /\ hwcmds = <<>>
    /\ passEn = {}
    /\ passDir = 0
    /\ iterDelay = FALSE
    /\ firstUsed = 0
    /\ fitsMayFail = FALSE
    /\ fitsFail = NoFail
    /\ plotSize = 1
    /\ fgAlloc = FALSE
    /\ freed = FALSE
    /\ afterFree = FALSE
    /\ capture = FALSE
    /\ hsRet = "none"
    /\ hsStep = "none"
    /\ auto_dims = [x \in Lines |-> NoDim]
    /\ cross_dims = [i \in Baselines |-> NoDim]
    /\ plot_buf = <<>>
    /\ packet = "none"
    /\ tpc = "idle"
    /\ tx = 0
    /\ reported = [x \in Lines |-> 0]
    /\ consumed = [x \in Lines |-> 0]
    /\ linePower = [x \in Lines |-> FALSE]
    /\ lineActiveLow = [x \in Lines |-> FALSE]
    /\ lineEdgeTrigger = [x \in Lines |-> TRUE]
    /\ lineDifferential = [x \in Lines |-> FALSE]
    /\ leds = [x \in Lines |-> 0]
    /\ has_leds = FALSE
    /\ wavelength = 1
    /\ bandwidth = 1
    /\ lowfreq = Garbage
    /\ highfreq = Garbage
    /\ baseline_wavelength = [i \in Baselines |-> Garbage]
    /\ pw = 0
    /\ pxx = 0
    /\ pyy = 0
    /\ written = {}
    /\ plotted = FALSE
    /\ blobLog = <<>>

\* ------------------------------------------------------------- connect
\* Handshake, every check passing: the tables are sized, the streams created with one
\* row each, the output slots emptied, the totals cleared.  delay is resized and not
\* cleared.
Handshake ==
    /\ ~crashed
    /\ spc = "idle"
    /\ ~connected
    /\ connected' = TRUE
    /\ lineEnable' = [x \in Lines |-> FALSE]
    /\ lineLocation' = [x \in Lines |-> 0]
    /\ baselines' = [i \in Baselines |-> 0]
    /\ totalcounts' = [x \in Lines |-> 0]
    /\ totalcorrelations' = [i \in Baselines |-> 0]
    /\ crosscorrelations_str' =
          [i \in Baselines |-> IF CrossLagSize > 1 THEN <<Garbage>> ELSE <<>>]
    /\ autocorrelations_str' =
          [x \in Lines |-> IF AutoLagSize > 1 THEN <<Garbage>> ELSE <<>>]
    /\ plot_str' = 0
    /\ delay' = [x \in Lines |-> Garbage]
    /\ appended' = 0
    /\ plotB' = NoSlot
    /\ autocorrelationsB' = [x \in Lines |-> NoSlot]
    /\ crosscorrelationsB' = [i \in Baselines |-> NoSlot]
    /\ UNCHANGED encvars
    /\ UNCHANGED setvars
    /\ freed' = FALSE
    /\ UNCHANGED afterFree
    /\ capture' = TRUE
    /\ hsRet' = "true"
    /\ hsStep' = "none"
    /\ auto_dims' = ConnectedAutoDims
    /\ cross_dims' = ConnectedCrossDims
    /\ plot_buf' = GarbageImage(plotSize)
    /\ UNCHANGED pktvars
    /\ UNCHANGED racevars
    /\ UNCHANGED ledvars
    /\ UNCHANGED bandvars
    /\ UNCHANGED pxvars
    /\ UNCHANGED blobvars
    /\ UNCHANGED <<threadsRunning, timerArmed, cyclevars, fgvars, rdvars,
                   hwcmds, iterDelay, firstUsed, passEn, passDir, crashed,
                   finCur, finAborted, rfin, ser, emitLog>>

\* the four checks of lines 986-1007, in their order
HandshakeSteps == {"connect_fd", "is_connected", "get_properties", "is_detected"}

\* a Handshake that sizes the tables, creates the streams and enables capture before
\* it looks at the failed check
HandshakeFailsLate(step) ==
    /\ ~crashed
    /\ spc = "idle"
    /\ ~connected
    /\ hsRet' = "false"
    /\ hsStep' = step
    /\ auto_dims' = ConnectedAutoDims
    /\ cross_dims' = ConnectedCrossDims
    /\ plot_buf' = GarbageImage(plotSize)
    /\ capture' = TRUE
    /\ lineEnable' = [x \in Lines |-> FALSE]
    /\ lineLocation' = [x \in Lines |-> 0]
    /\ baselines' = [i \in Baselines |-> 0]
    /\ totalcounts' = [x \in Lines |-> 0]
    /\ totalcorrelations' = [i \in Baselines |-> 0]
    /\ crosscorrelations_str' =
          [i \in Baselines |-> IF CrossLagSize > 1 THEN <<Garbage>> ELSE <<>>]
    /\ autocorrelations_str' =
          [x \in Lines |-> IF AutoLagSize > 1 THEN <<Garbage>> ELSE <<>>]
    /\ plot_str' = 0
    /\ UNCHANGED encvars
    /\ UNCHANGED setvars
    /\ UNCHANGED tdvars
    /\ UNCHANGED pktvars
    /\ UNCHANGED racevars
    /\ UNCHANGED ledvars
    /\ UNCHANGED bandvars
    /\ UNCHANGED pxvars
    /\ UNCHANGED blobvars
    /\ UNCHANGED <<envvars, cyclevars, fgvars, rdvars, slotvars, passvars, finvars>>

\* lines 984-1007: Handshake with the check `step' failing.  The hardware connection
\* is closed where one was opened (not after is_connected, which found none) and
\* false is returned; INDI leaves the device not connected.
HandshakeFails(step) ==
    /\ ~crashed
    /\ spc = "idle"
    /\ ~connected
    /\ hsRet' = "false"
    /\ hsStep' = step
    /\ UNCHANGED dimvars
    /\ UNCHANGED imgvars
    /\ UNCHANGED pktvars
    /\ UNCHANGED racevars
    /\ UNCHANGED ledvars
    /\ UNCHANGED bandvars
    /\ UNCHANGED pxvars
    /\ UNCHANGED blobvars
    /\ UNCHANGED capture
    /\ UNCHANGED encvars
    /\ UNCHANGED setvars
    /\ UNCHANGED tdvars
    /\ UNCHANGED <<envvars, cfgvars, cyclevars, fgvars, rdvars, bufvars, slotvars,
                   totvars, passvars, finvars>>

\* ------------------------------------------------------------- line flags
\* ActiveLine, lines 1223-1226: the flags of one ahp_xc_set_leds command
ActiveLine(on, power, active_low, edge_triggered, differential) ==
    (IF on THEN 1 ELSE 0) + (IF power THEN 2 ELSE 0) + (IF active_low THEN 4 ELSE 0)
        + (IF edge_triggered THEN 8 ELSE 0) + (IF differential THEN 16 ELSE 0)

\* lines 822-826, 831-835, 840-844 and 849-853: the flags the power, active edge,
\* trigger and differential updates send for line x, given the switches
LineFlags(x, en, pw_, lo, ed, df) ==
    ActiveLine(en[x] \/ has_leds, pw_[x], lo[x], ed[x], df[x])

\* lines 793-808: the flags the enable update sends for line x; the differential flag
\* is read from sp[1], the "multiplicative sampling" switch
EnableFlags(x, en) ==
    IF en[x]
    THEN ActiveLine(en[x] \/ has_leds, linePower[x], lineActiveLow[x],
                    lineEdgeTrigger[x], ~lineDifferential[x])
    ELSE ActiveLine(FALSE, FALSE, FALSE, FALSE, FALSE)

\* ------------------------------------------------------------- disconnect
\* lines 503-552: capture is stopped, the streams are freed, the hardware is closed;
\* the cycle's state and the reader's running flag are left as they are
Disconnect ==
    /\ ~crashed
    /\ spc = "idle"
    /\ connected
    /\ connected' = FALSE
    /\ freed' = TRUE
    /\ capture' = FALSE
    /\ UNCHANGED <<hsRet, hsStep>>
    /\ auto_dims' = [x \in Lines |-> NoDim]
    /\ cross_dims' = [i \in Baselines |-> NoDim]
    /\ plot_buf' = <<>>
    /\ autocorrelations_str' = [x \in Lines |-> <<>>]
    /\ crosscorrelations_str' = [i \in Baselines |-> <<>>]
    /\ plot_str' = 0
    /\ UNCHANGED afterFree
    /\ UNCHANGED encvars
    /\ UNCHANGED setvars
    /\ UNCHANGED pktvars
    /\ UNCHANGED racevars
    /\ leds' = [x \in Lines |-> ActiveLine(FALSE, FALSE, FALSE, FALSE, FALSE)]
    /\ UNCHANGED <<linePower, lineActiveLow, lineEdgeTrigger, lineDifferential, has_leds>>
    /\ UNCHANGED bandvars
    /\ UNCHANGED pxvars
    /\ UNCHANGED blobvars
    /\ UNCHANGED <<threadsRunning, timerArmed, cfgvars, cyclevars, fgvars, rdvars,
                   slotvars, totvars, passvars, finvars>>

\* ------------------------------------------------------------- integration cycle
\* lines 920-933
CalcTimeLeft == IntegrationRequest - (now - ExpStart)

\* StartIntegration without its first two lines
StartIntegrationUnguarded(duration) ==
    /\ ~crashed
    /\ spc = "idle"
    /\ connected
    /\ IntegrationRequest' = duration
    /\ spc' = "request"
    /\ finCur' = FALSE
    /\ UNCHANGED encvars
    /\ UNCHANGED setvars
    /\ UNCHANGED tdvars
    /\ UNCHANGED hsvars
    /\ UNCHANGED dimvars
    /\ UNCHANGED imgvars
    /\ UNCHANGED pktvars
    /\ UNCHANGED racevars
    /\ UNCHANGED ledvars
    /\ UNCHANGED bandvars
    /\ UNCHANGED pxvars
    /\ UNCHANGED blobvars
    /\ UNCHANGED <<envvars, cfgvars, InIntegration, ExpStart, ret, rdvars, bufvars,
                   slotvars, totvars, passvars, finAborted, rfin, ser, emitLog, appended>>

\* lines 685-688: the call is refused while InIntegration, else the request is stored
StartIntegration(duration) ==
    /\ ~crashed
    /\ spc = "idle"
    /\ connected
    /\ IF InIntegration
       THEN /\ ret' = "refused"
            /\ UNCHANGED <<IntegrationRequest, spc, finCur>>
       ELSE /\ IntegrationRequest' = duration
            /\ spc' = "request"
            /\ finCur' = FALSE
            /\ ret' = ret
    /\ UNCHANGED encvars
    /\ UNCHANGED setvars
    /\ UNCHANGED tdvars
    /\ UNCHANGED hsvars
    /\ UNCHANGED dimvars
    /\ UNCHANGED imgvars
    /\ UNCHANGED pktvars
    /\ UNCHANGED racevars
    /\ UNCHANGED ledvars
    /\ UNCHANGED bandvars
    /\ UNCHANGED pxvars
    /\ UNCHANGED blobvars
    /\ UNCHANGED <<envvars, cfgvars, InIntegration, ExpStart, rdvars, bufvars,
                   slotvars, totvars, passvars, finAborted, rfin, ser, emitLog, appended>>

\* line 689
StartStamp ==
    /\ ~crashed
    /\ spc = "request"
    /\ ExpStart' = now
    /\ spc' = "stamp"
    /\ UNCHANGED encvars
    /\ UNCHANGED setvars
    /\ UNCHANGED tdvars
    /\ UNCHANGED hsvars
    /\ UNCHANGED dimvars
    /\ UNCHANGED imgvars
    /\ UNCHANGED pktvars
    /\ UNCHANGED racevars
    /\ UNCHANGED ledvars
    /\ UNCHANGED bandvars
    /\ UNCHANGED pxvars
    /\ UNCHANGED blobvars
    /\ UNCHANGED <<envvars, cfgvars, InIntegration, IntegrationRequest, ret, rdvars,
                   bufvars, slotvars, totvars, passvars, finvars>>

\* lines 690-692
StartFlag ==
    /\ ~crashed
    /\ spc = "stamp"
    /\ InIntegration' = TRUE
    /\ spc' = "idle"
    /\ ret' = "accepted"
    /\ UNCHANGED encvars
    /\ UNCHANGED setvars
    /\ UNCHANGED tdvars
    /\ UNCHANGED hsvars
    /\ UNCHANGED dimvars
    /\ UNCHANGED imgvars
    /\ UNCHANGED pktvars
    /\ UNCHANGED racevars
    /\ UNCHANGED ledvars
    /\ UNCHANGED bandvars
    /\ UNCHANGED pxvars
    /\ UNCHANGED blobvars
    /\ UNCHANGED <<envvars, cfgvars, IntegrationRequest, ExpStart, rdvars, bufvars,
                   slotvars, totvars, passvars, finvars>>

\* lines 698-702
AbortIntegration ==
    /\ ~crashed
    /\ spc = "idle"
    /\ connected
    /\ InIntegration' = FALSE
    /\ finAborted' = IF InIntegration /\ rpc = "fin" /\ finCur THEN TRUE ELSE finAborted
    /\ UNCHANGED encvars
    /\ UNCHANGED setvars
    /\ UNCHANGED tdvars
    /\ UNCHANGED hsvars
    /\ UNCHANGED dimvars
    /\ UNCHANGED imgvars
    /\ UNCHANGED pktvars
    /\ UNCHANGED racevars
    /\ UNCHANGED ledvars
    /\ UNCHANGED bandvars
    /\ UNCHANGED pxvars
    /\ UNCHANGED blobvars
    /\ UNCHANGED <<envvars, cfgvars, IntegrationRequest, ExpStart, fgvars, rdvars,
                   bufvars, slotvars, totvars, passvars, finCur, rfin, ser, emitLog,
                   appended>>

\* ------------------------------------------------------------- configuration
\* ISNewSwitch, lines 790-818: the enable switch of line x is flipped and the line's
\* flags are sent
ISNewSwitchEnable(x) ==
    /\ ~crashed
    /\ spc = "idle"
    /\ connected
    /\ lineEnable' = [lineEnable EXCEPT ![x] = ~lineEnable[x]]
    /\ UNCHANGED encvars
    /\ UNCHANGED setvars
    /\ UNCHANGED tdvars
    /\ UNCHANGED hsvars
    /\ UNCHANGED dimvars
    /\ UNCHANGED imgvars
    /\ UNCHANGED pktvars
    /\ UNCHANGED racevars
    /\ leds' = [leds EXCEPT ![x] = EnableFlags(x, lineEnable')]
    /\ UNCHANGED <<linePower, lineActiveLow, lineEdgeTrigger, lineDifferential, has_leds>>
    /\ UNCHANGED bandvars
    /\ UNCHANGED pxvars
    /\ UNCHANGED blobvars
    /\ UNCHANGED <<envvars, lineLocation, baselines, cyclevars, fgvars, rdvars, bufvars,
                   slotvars, totvars, passvars, finvars>>

\* ISNewSwitch, lines 819-827: the power switch of line x is flipped and the line's
\* flags are sent
ISNewSwitchPower(x) ==
    /\ ~crashed
    /\ spc = "idle"
    /\ connected
    /\ UNCHANGED encvars
    /\ UNCHANGED setvars
    /\ UNCHANGED tdvars
    /\ UNCHANGED hsvars
    /\ UNCHANGED dimvars
    /\ UNCHANGED imgvars
    /\ UNCHANGED pktvars
    /\ UNCHANGED racevars
    /\ linePower' = [linePower EXCEPT ![x] = ~linePower[x]]
    /\ leds' = [leds EXCEPT ![x] = LineFlags(x, lineEnable, linePower', lineActiveLow, lineEdgeTrigger, lineDifferential)]
    /\ UNCHANGED <<lineActiveLow, lineEdgeTrigger, lineDifferential, has_leds>>
    /\ UNCHANGED bandvars
    /\ UNCHANGED pxvars
    /\ UNCHANGED blobvars
    /\ UNCHANGED <<envvars, cfgvars, cyclevars, fgvars, rdvars, bufvars,
                   slotvars, totvars, passvars, finvars>>

\* ISNewSwitch, lines 828-836: the active edge switch of line x is flipped and the line's
\* flags are sent
ISNewSwitchActiveEdge(x) ==
    /\ ~crashed
    /\ spc = "idle"
    /\ connected
    /\ UNCHANGED encvars
    /\ UNCHANGED setvars
    /\ UNCHANGED tdvars
    /\ UNCHANGED hsvars
    /\ UNCHANGED dimvars
    /\ UNCHANGED imgvars
    /\ UNCHANGED pktvars
    /\ UNCHANGED racevars
    /\ lineActiveLow' = [lineActiveLow EXCEPT ![x] = ~lineActiveLow[x]]
    /\ leds' = [leds EXCEPT ![x] = LineFlags(x, lineEnable, linePower, lineActiveLow', lineEdgeTrigger, lineDifferential)]
    /\ UNCHANGED <<linePower, lineEdgeTrigger, lineDifferential, has_leds>>
    /\ UNCHANGED bandvars
    /\ UNCHANGED pxvars
    /\ UNCHANGED blobvars
    /\ UNCHANGED <<envvars, cfgvars, cyclevars, fgvars, rdvars, bufvars,
                   slotvars, totvars, passvars, finvars>>

\* ISNewSwitch, lines 837-845: the trigger switch of line x is flipped and the line's
\* flags are sent
ISNewSwitchEdgeTrigger(x) ==
    /\ ~crashed
    /\ spc = "idle"
    /\ connected
    /\ UNCHANGED encvars
    /\ UNCHANGED setvars
    /\ UNCHANGED tdvars
    /\ UNCHANGED hsvars
    /\ UNCHANGED dimvars
    /\ UNCHANGED imgvars
    /\ UNCHANGED pktvars
    /\ UNCHANGED racevars
    /\ lineEdgeTrigger' = [lineEdgeTrigger EXCEPT ![x] = ~lineEdgeTrigger[x]]
    /\ leds' = [leds EXCEPT ![x] = LineFlags(x, lineEnable, linePower, lineActiveLow, lineEdgeTrigger', lineDifferential)]
    /\ UNCHANGED <<linePower, lineActiveLow, lineDifferential, has_leds>>
    /\ UNCHANGED bandvars
    /\ UNCHANGED pxvars
    /\ UNCHANGED blobvars
    /\ UNCHANGED <<envvars, cfgvars, cyclevars, fgvars, rdvars, bufvars,
                   slotvars, totvars, passvars, finvars>>

\* ISNewSwitch, lines 846-854: the differential switch of line x is flipped and the line's
\* flags are sent
ISNewSwitchDifferential(x) ==
    /\ ~crashed
    /\ spc = "idle"
    /\ connected
    /\ UNCHANGED encvars
    /\ UNCHANGED setvars
    /\ UNCHANGED tdvars
    /\ UNCHANGED hsvars
    /\ UNCHANGED dimvars
    /\ UNCHANGED imgvars
    /\ UNCHANGED pktvars
    /\ UNCHANGED racevars
    /\ lineDifferential' = [lineDifferential EXCEPT ![x] = ~lineDifferential[x]]
    /\ leds' = [leds EXCEPT ![x] = LineFlags(x, lineEnable, linePower, lineActiveLow, lineEdgeTrigger, lineDifferential')]
    /\ UNCHANGED <<linePower, lineActiveLow, lineEdgeTrigger, has_leds>>
    /\ UNCHANGED bandvars
    /\ UNCHANGED pxvars
    /\ UNCHANGED blobvars
    /\ UNCHANGED <<envvars, cfgvars, cyclevars, fgvars, rdvars, bufvars,
                   slotvars, totvars, passvars, finvars>>

\* an update that rewrites only the baselines that start at line i
UpdatedBaselinesFromOnly(loc, i) ==
    [idx \in Baselines |->
        LET x == PairSeq[idx + 1][1]
            y == PairSeq[idx + 1][2]
        IN  IF x = i THEN loc[y] - loc[x] ELSE baselines[idx]]

\* lines 722-737: the baselines an update of line i's location rewrites
UpdatedBaselines(loc, i) ==
    [idx \in Baselines |->
        LET x == PairSeq[idx + 1][1]
            y == PairSeq[idx + 1][2]
        IN  IF x = i \/ y = i THEN loc[y] - loc[x] ELSE baselines[idx]]

\* ISNewNumber, lines 717-740: line i is moved to position v
ISNewNumberLocation(i, v) ==
    /\ ~crashed
    /\ spc = "idle"
    /\ connected
    /\ v # lineLocation[i]
    /\ lineLocation' = [lineLocation EXCEPT ![i] = v]
    /\ baselines' = UpdatedBaselines(lineLocation', i)
    /\ UNCHANGED encvars
    /\ UNCHANGED setvars
    /\ UNCHANGED tdvars
    /\ UNCHANGED hsvars
    /\ UNCHANGED dimvars
    /\ UNCHANGED imgvars
    /\ UNCHANGED pktvars
    /\ UNCHANGED racevars
    /\ UNCHANGED ledvars
    /\ UNCHANGED bandvars
    /\ UNCHANGED pxvars
    /\ UNCHANGED blobvars
    /\ UNCHANGED <<envvars, lineEnable, cyclevars, fgvars, rdvars, bufvars, slotvars,
                   totvars, passvars, finvars>>

\* The wavelengths and bandwidths a host can set, in scaled units, and the speed of
\* light in the same units: every quotient below is exact.
MaxWave == 3
Waves == 1 .. MaxWave
LightSpeed == 24

\* lines 744-747
LowFreq(wl, bw) == LightSpeed \div wl - (LightSpeed \div bw) \div 2
HighFreq(wl, bw) == LightSpeed \div wl + (LightSpeed \div bw) \div 2

\* ISNewNumber, lines 742-758, and setupParams, lines 666-678: the band is computed
\* from settingsN as it stands and published, then the new values are stored, every
\* baseline is given the stored wavelength, and the preview is resized and
\* reallocated, whatever the cycle's state
ISNewNumberSettingsTo(wl, bw, size) ==
    /\ ~crashed
    /\ spc = "idle"
    /\ connected
    /\ lowfreq' = LowFreq(wavelength, bandwidth)
    /\ highfreq' = HighFreq(wavelength, bandwidth)
    /\ wavelength' = wl
    /\ bandwidth' = bw
    /\ baseline_wavelength' = [i \in Baselines |-> wl]
    /\ plotSize' = size
    /\ plot_buf' = ResizeImage(plot_buf, size)
    /\ fgAlloc' = (fgAlloc \/ InIntegration)
    /\ UNCHANGED encvars
    /\ UNCHANGED tdvars
    /\ UNCHANGED hsvars
    /\ UNCHANGED dimvars
    /\ UNCHANGED pktvars
    /\ UNCHANGED racevars
    /\ UNCHANGED ledvars
    /\ UNCHANGED pxvars
    /\ UNCHANGED blobvars
    /\ UNCHANGED <<envvars, cfgvars, cyclevars, fgvars, rdvars, bufvars, slotvars,
                   totvars, passvars, finvars>>

\* the same handler when the host sends the wavelength and the bandwidth as they stand
ISNewNumberSettings(size) == ISNewNumberSettingsTo(wavelength, bandwidth, size)

\* ------------------------------------------------------------- delay compensation
Enabled == {x \in Lines : lineEnable[x]}

\* lines 297-315: the first enabled line, -1 when there is none
First == IF Enabled = {} THEN -1 ELSE Min(Enabled)

\* idx at line 316: 1 plus the enabled lines after the first
CenterCount == IF Enabled = {} THEN 1 ELSE Cardinality(Enabled)

\* lines 316-330: center[x].x times CenterCount, for an enabled x
CenterScaled(x) ==
    LET rel == [e \in Lines |-> lineLocation[e] - lineLocation[First]]
    IN  CenterCount * rel[x] - Sum(rel, Enabled \ {First})

\* line 331: the quotient is 0/0, which no comparison finds greater, when center[x] is 0
DelayTmpIsNaN(x) == CenterScaled(x) = 0
DelayTmp(dir, x) == dir * Sign(CenterScaled(x))

\* lines 322-336: <<farest, delay_max>> after the lines x .. NLines-1
RECURSIVE FarestFrom(_, _, _, _)
FarestFrom(x, farest, delay_max, dir) ==
    IF x = NLines THEN farest
    ELSE IF lineEnable[x] /\ ~DelayTmpIsNaN(x) /\ DelayTmp(dir, x) > delay_max
         THEN FarestFrom(x + 1, x, DelayTmp(dir, x), dir)
         ELSE FarestFrom(x + 1, farest, delay_max, dir)

Farest(dir) == FarestFrom(0, 0, 0, dir)

\* line 347
GetDelay(dir, idx) == Abs(dir * baselines[idx])

\* a clamp that lets the depth itself through
ClampOffByOne(delay_clocks) ==
    IF delay_clocks > 0
    THEN (IF delay_clocks <= DelaySize THEN delay_clocks ELSE DelaySize)
    ELSE 0

\* line 349
Clamp(delay_clocks) ==
    IF delay_clocks > 0
    THEN (IF delay_clocks < DelaySize THEN delay_clocks ELSE DelaySize - 1)
    ELSE 0

\* line 348
DelayClocks(d) == d * ClockScale

\* a pair loop without the test of line 345
RECURSIVE PairPassAnyPair(_, _, _, _, _)
PairPassAnyPair(i, farest, dir, dl, cmds) ==
    IF i > NBaselines THEN <<dl, cmds>>
    ELSE LET x == PairSeq[i][1]
             y == PairSeq[i][2]
             d == GetDelay(dir, i - 1)
             c == Clamp(DelayClocks(d))
             other == IF y = farest THEN x ELSE y
         IN  IF x = farest \/ y = farest
             THEN PairPassAnyPair(i + 1, farest, dir, [dl EXCEPT ![other] = d],
                                  cmds \o << <<"auto", other, 0>>, <<"cross", other, c>> >>)
             ELSE PairPassAnyPair(i + 1, farest, dir, dl, cmds)

\* lines 341-365 from the i-th pair on: <<delay, commands>>
RECURSIVE PairPass(_, _, _, _, _)
PairPass(i, farest, dir, dl, cmds) ==
    IF i > NBaselines THEN <<dl, cmds>>
    ELSE LET x == PairSeq[i][1]
             y == PairSeq[i][2]
             d == GetDelay(dir, i - 1)
             c == Clamp(DelayClocks(d))
             other == IF y = farest THEN x ELSE y
         IN  IF lineEnable[x] /\ lineEnable[y] /\ (x = farest \/ y = farest)
             THEN PairPass(i + 1, farest, dir, [dl EXCEPT ![other] = d],
                           cmds \o << <<"auto", other, 0>>, <<"cross", other, c>> >>)
             ELSE PairPass(i + 1, farest, dir, dl, cmds)

\* lines 337-365: <<delay, commands>> of one pass
DelayPass(dir) ==
    LET farest == Farest(dir)
    IN  PairPass(1, farest, dir, [delay EXCEPT ![farest] = 0],
                 << <<"auto", farest, 0>>, <<"cross", farest, 0>> >>)

\* lines 367-395: the values one packet adds to the preview, two per enabled baseline
PlotAdds == 2 * Cardinality({p \in PairSet : lineEnable[p[1]] /\ lineEnable[p[2]]})

\* ------------------------------------------------------------- the reader thread
\* a reader that polls the hardware without testing the connection
ReaderNotConnectedPolls ==
    /\ ~crashed
    /\ rpc = "loop"
    /\ threadsRunning
    /\ ~connected
    /\ pkt < MaxPackets
    /\ pkt' = pkt + 1
    /\ rpc' = "backoff"
    /\ UNCHANGED encvars
    /\ UNCHANGED setvars
    /\ UNCHANGED tdvars
    /\ UNCHANGED hsvars
    /\ UNCHANGED dimvars
    /\ UNCHANGED imgvars
    /\ UNCHANGED pktvars
    /\ UNCHANGED racevars
    /\ UNCHANGED ledvars
    /\ UNCHANGED bandvars
    /\ UNCHANGED pxvars
    /\ UNCHANGED blobvars
    /\ UNCHANGED <<envvars, cfgvars, cyclevars, fgvars, now, timeleft, bufvars,
                   slotvars, totvars, passvars, finvars>>

\* lines 179-185: not connected, the reader backs off
ReaderNotConnected ==
    /\ ~crashed
    /\ rpc = "loop"
    /\ threadsRunning
    /\ ~connected
    /\ rpc' = "backoff"
    /\ UNCHANGED encvars
    /\ UNCHANGED setvars
    /\ UNCHANGED tdvars
    /\ UNCHANGED hsvars
    /\ UNCHANGED dimvars
    /\ UNCHANGED imgvars
    /\ UNCHANGED pktvars
    /\ UNCHANGED racevars
    /\ UNCHANGED ledvars
    /\ UNCHANGED bandvars
    /\ UNCHANGED pxvars
    /\ UNCHANGED blobvars
    /\ UNCHANGED <<envvars, cfgvars, cyclevars, fgvars, pkt, now, timeleft, bufvars,
                   slotvars, totvars, passvars, finvars>>

\* a not-ready poll that counts as a packet
ReaderNotReadyConsumes ==
    /\ ~crashed
    /\ rpc = "loop"
    /\ threadsRunning
    /\ connected
    /\ pkt < MaxPackets
    /\ pkt' = pkt + 1
    /\ rpc' = "wait"
    /\ UNCHANGED encvars
    /\ UNCHANGED setvars
    /\ UNCHANGED tdvars
    /\ UNCHANGED hsvars
    /\ UNCHANGED dimvars
    /\ UNCHANGED imgvars
    /\ packet' = "held"
    /\ UNCHANGED racevars
    /\ UNCHANGED ledvars
    /\ UNCHANGED bandvars
    /\ UNCHANGED pxvars
    /\ UNCHANGED blobvars
    /\ UNCHANGED <<envvars, cfgvars, cyclevars, fgvars, now, timeleft, bufvars,
                   slotvars, totvars, passvars, finvars>>

\* lines 186-191: a packet is allocated, the hardware has none ready
ReaderNotReady ==
    /\ ~crashed
    /\ rpc = "loop"
    /\ threadsRunning
    /\ connected
    /\ rpc' = "wait"
    /\ UNCHANGED encvars
    /\ UNCHANGED setvars
    /\ UNCHANGED tdvars
    /\ UNCHANGED hsvars
    /\ UNCHANGED dimvars
    /\ UNCHANGED imgvars
    /\ packet' = "held"
    /\ UNCHANGED racevars
    /\ UNCHANGED ledvars
    /\ UNCHANGED bandvars
    /\ UNCHANGED pxvars
    /\ UNCHANGED blobvars
    /\ UNCHANGED <<envvars, cfgvars, cyclevars, fgvars, pkt, now, timeleft, bufvars,
                   slotvars, totvars, passvars, finvars>>

\* lines 183-184 and 189-190: the sleep ends and the loop starts over; after line 189
\* the packet allocated at line 186 goes out of scope as it is
ReaderSleep ==
    /\ ~crashed
    /\ rpc \in {"backoff", "wait"}
    /\ rpc' = "loop"
    /\ UNCHANGED encvars
    /\ UNCHANGED setvars
    /\ UNCHANGED tdvars
    /\ UNCHANGED hsvars
    /\ UNCHANGED dimvars
    /\ UNCHANGED imgvars
    /\ packet' = (IF rpc = "wait" THEN "lost" ELSE packet)
    /\ UNCHANGED racevars
    /\ UNCHANGED ledvars
    /\ UNCHANGED bandvars
    /\ UNCHANGED pxvars
    /\ UNCHANGED blobvars
    /\ UNCHANGED <<envvars, cfgvars, cyclevars, fgvars, pkt, now, timeleft, bufvars,
                   slotvars, totvars, passvars, finvars>>

\* lines 186-187: a packet is ready; the per-iteration history starts over
ReaderGetPacket ==
    /\ ~crashed
    /\ rpc = "loop"
    /\ threadsRunning
    /\ connected
    /\ pkt < MaxPackets
    /\ pkt' = pkt + 1
    /\ now' = now + 1
    /\ rpc' = "calc"
    /\ hwcmds' = <<>>
    /\ iterDelay' = FALSE
    /\ passEn' = {}
    /\ rfin' = FALSE
    /\ finCur' = FALSE
    /\ finAborted' = FALSE
    /\ ser' = NoSer
    /\ emitLog' = {}
    /\ UNCHANGED encvars
    /\ UNCHANGED setvars
    /\ UNCHANGED tdvars
    /\ UNCHANGED hsvars
    /\ UNCHANGED dimvars
    /\ UNCHANGED imgvars
    /\ packet' = "held"
    /\ UNCHANGED racevars
    /\ UNCHANGED ledvars
    /\ UNCHANGED bandvars
    /\ UNCHANGED pxvars
    /\ blobLog' = <<>>
    /\ UNCHANGED <<envvars, cfgvars, cyclevars, fgvars, timeleft, bufvars, slotvars,
                   totvars, delay, firstUsed, passDir, crashed, appended>>

\* lines 192-196; an unset ExpStart makes the difference any number
ReaderCalcTimeLeft ==
    /\ ~crashed
    /\ rpc = "calc"
    /\ IF ExpStart = Garbage
       THEN timeleft' \in 0 .. 1
       ELSE timeleft' = IF CalcTimeLeft <= 0 THEN 0 ELSE CalcTimeLeft
    /\ rpc' = "check"
    /\ UNCHANGED encvars
    /\ UNCHANGED setvars
    /\ UNCHANGED tdvars
    /\ UNCHANGED hsvars
    /\ UNCHANGED dimvars
    /\ UNCHANGED imgvars
    /\ UNCHANGED pktvars
    /\ UNCHANGED racevars
    /\ UNCHANGED ledvars
    /\ UNCHANGED bandvars
    /\ UNCHANGED pxvars
    /\ UNCHANGED blobvars
    /\ UNCHANGED <<envvars, cfgvars, cyclevars, fgvars, pkt, now, bufvars, slotvars,
                   totvars, passvars, finvars>>

\* lines 198-200 and 290: where the reader goes from the two tests
Branch == IF ~InIntegration THEN "totals" ELSE IF timeleft = 0 THEN "fin" ELSE "acc"

ReaderCheck ==
    /\ ~crashed
    /\ rpc = "check"
    /\ rpc' = Branch
    /\ passEn' = Enabled
    /\ finCur' = (Branch = "fin")
    /\ UNCHANGED encvars
    /\ UNCHANGED setvars
    /\ UNCHANGED tdvars
    /\ UNCHANGED hsvars
    /\ UNCHANGED dimvars
    /\ UNCHANGED imgvars
    /\ UNCHANGED pktvars
    /\ UNCHANGED racevars
    /\ UNCHANGED ledvars
    /\ UNCHANGED bandvars
    /\ UNCHANGED pxvars
    /\ UNCHANGED blobvars
    /\ UNCHANGED <<envvars, cfgvars, cyclevars, fgvars, pkt, now, timeleft, bufvars,
                   slotvars, totvars, delay, hwcmds, iterDelay, firstUsed, passDir,
                   crashed,
                   finAborted, rfin, ser, emitLog, appended>>

\* lines 396-421: the packet's lag vector goes into the last row, a new last row is
\* allocated after it
AppendRow(buf) == SubSeq(buf, 1, Len(buf) - 1) \o <<pkt, Garbage>>

\* lines 292-421: sky direction, delay compensation, preview, one row per buffer.
\* With no line enabled lines 319-321 read lineLocationNP[-1]: the read may fault.
ReaderAccumulate ==
    /\ ~crashed
    /\ rpc = "acc"
    /\ firstUsed' = First
    /\ iterDelay' = TRUE
    /\ \/ /\ crashed' = FALSE
          /\ rpc' = "totals"
          /\ \E dir \in Dirs :
                /\ delay' = DelayPass(dir)[1]
                /\ hwcmds' = DelayPass(dir)[2]
                /\ passDir' = dir
                /\ plot_buf' = PlotPass(1, dir, PlotWidth(plotSize), plot_buf)
          /\ plot_str' = plot_str + PlotAdds
          /\ autocorrelations_str' =
                IF NLines > 0 /\ AutoLagSize > 1
                THEN [x \in Lines |-> AppendRow(autocorrelations_str[x])]
                ELSE autocorrelations_str
          /\ crosscorrelations_str' =
                IF NBaselines > 0 /\ CrossLagSize > 1
                THEN [i \in Baselines |-> AppendRow(crosscorrelations_str[i])]
                ELSE crosscorrelations_str
          /\ appended' = appended + 1
          /\ auto_dims' =
                IF NLines > 0 /\ AutoLagSize > 1
                THEN [x \in Lines |-> AppendDim(auto_dims[x])]
                ELSE auto_dims
          /\ cross_dims' =
                IF NBaselines > 0 /\ CrossLagSize > 1
                THEN [i \in Baselines |-> AppendDim(cross_dims[i])]
                ELSE cross_dims
       \/ /\ First = -1
          /\ crashed' = TRUE
          /\ UNCHANGED <<rpc, delay, hwcmds, passDir, bufvars, appended, dimvars,
                       imgvars>>
    /\ UNCHANGED encvars
    /\ UNCHANGED setvars
    /\ afterFree' = (afterFree \/ freed)
    /\ UNCHANGED hsvars
    /\ UNCHANGED freed
    /\ UNCHANGED pktvars
    /\ UNCHANGED racevars
    /\ UNCHANGED ledvars
    /\ UNCHANGED bandvars
    /\ UNCHANGED pxvars
    /\ UNCHANGED blobvars
    /\ UNCHANGED <<envvars, cfgvars, cyclevars, fgvars, pkt, now, timeleft, slotvars,
                   totvars, passEn, finCur, finAborted, rfin, ser, emitLog>>

\* lines 203-208: the cycle is over, the serialization starts
ReaderFinish ==
    /\ ~crashed
    /\ rpc = "fin"
    /\ InIntegration' = FALSE
    /\ rfin' = TRUE
    /\ appended' = 0
    /\ rpc' = "plots"
    /\ fitsFail' \in (IF fitsMayFail THEN FitsCalls \cup {NoFail} ELSE {NoFail})
    /\ UNCHANGED fitsMayFail
    /\ UNCHANGED setvars
    /\ UNCHANGED tdvars
    /\ UNCHANGED hsvars
    /\ UNCHANGED dimvars
    /\ UNCHANGED imgvars
    /\ UNCHANGED pktvars
    /\ UNCHANGED racevars
    /\ UNCHANGED ledvars
    /\ UNCHANGED bandvars
    /\ UNCHANGED pxvars
    /\ UNCHANGED blobvars
    /\ UNCHANGED <<envvars, cfgvars, IntegrationRequest, ExpStart, fgvars, pkt, now,
                   timeleft, bufvars, slotvars, totvars, passvars, finCur, finAborted,
                   ser, emitLog>>

\* an IDSetBLOB call: which vector, and whether AbortIntegration had returned
Emit(kind) == [kind |-> kind, afterAbort |-> finAborted]

\* an output slot pointing at the serialized rows of stream src
Slot(src, rows) == [set |-> TRUE, src |-> src, rows |-> rows]

\* lines 209-230: the preview is serialized and zeroed, its vector is sent
ReaderPlots ==
    /\ ~crashed
    /\ rpc = "plots"
    /\ plotB' = IF fitsFail = <<"plot", 0>> THEN plotB ELSE Slot(0, <<plot_str>>)
    /\ plot_str' = 0
    /\ plot_buf' = ZeroImage(plot_buf)
    /\ ser' = [ser EXCEPT !.plot = @ + nplots, !.n = @ + nplots]
    /\ emitLog' = emitLog \cup {Emit("plot")}
    /\ rpc' = "autos"
    /\ UNCHANGED encvars
    /\ UNCHANGED setvars
    /\ afterFree' = (afterFree \/ freed)
    /\ UNCHANGED hsvars
    /\ UNCHANGED dimvars
    /\ UNCHANGED freed
    /\ UNCHANGED pktvars
    /\ UNCHANGED racevars
    /\ UNCHANGED ledvars
    /\ UNCHANGED bandvars
    /\ UNCHANGED pxvars
    /\ blobLog' = blobLog \o BlobCopies(<<Len(plot_buf)>>,
                                      IF fitsFail = <<"plot", 0>> THEN {1} ELSE {},
                                      1, 0, 0, <<>>)
    /\ UNCHANGED <<envvars, cfgvars, cyclevars, fgvars, pkt, now, timeleft,
                   autocorrelations_str, crosscorrelations_str, autocorrelationsB,
                   crosscorrelationsB, totvars, passvars, finCur, finAborted, rfin,
                   appended>>

\* lines 232-255: every line's buffer is serialized into its slot and reset to one
\* zeroed row, the vector is sent
ReaderAutos ==
    /\ ~crashed
    /\ rpc = "autos"
    /\ IF NLines > 0 /\ AutoLagSize > 1
       THEN /\ autocorrelationsB' =
                  [x \in Lines |-> IF fitsFail = <<"auto", x>>
                                   THEN autocorrelationsB[x]
                                   ELSE Slot(x, autocorrelations_str[x])]
            /\ autocorrelations_str' = [x \in Lines |-> <<Zeroed>>]
            /\ auto_dims' = [x \in Lines |-> ResetDim(auto_dims[x])]
            /\ ser' = [ser EXCEPT !.auto = [x \in Lines |-> @[x] + 1], !.n = @ + NLines]
            /\ emitLog' = emitLog \cup {Emit("auto")}
       ELSE UNCHANGED <<autocorrelationsB, autocorrelations_str, ser, emitLog, auto_dims>>
    /\ rpc' = "cross"
    /\ UNCHANGED encvars
    /\ UNCHANGED setvars
    /\ afterFree' = (afterFree \/ freed)
    /\ UNCHANGED hsvars
    /\ UNCHANGED imgvars
    /\ UNCHANGED pktvars
    /\ UNCHANGED racevars
    /\ UNCHANGED ledvars
    /\ UNCHANGED bandvars
    /\ UNCHANGED pxvars
    /\ blobLog' = (IF NLines > 0 /\ AutoLagSize > 1
                    THEN blobLog \o BlobCopies([x \in 1 .. NLines |-> auto_dims[x - 1].len],
                                               {x \in 1 .. NLines : fitsFail = <<"auto", x - 1>>},
                                               1, 0, 0, <<>>)
                    ELSE blobLog)
    /\ UNCHANGED cross_dims
    /\ UNCHANGED freed
    /\ UNCHANGED <<envvars, cfgvars, cyclevars, fgvars, pkt, now, timeleft,
                   crosscorrelations_str, plot_str, plotB, crosscorrelationsB, totvars,
                   passvars, finCur, finAborted, rfin, appended>>

\* lines 261-280 from the i-th pair on: the pair (x, y) serializes and resets the
\* stream at index x, the slot staying as it was when createFITS returns nullptr;
\* <<streams, slots, createFITS calls per stream>>
RECURSIVE CrossPass(_, _, _, _)
CrossPass(i, strs, slots, n) ==
    IF i > NBaselines THEN <<strs, slots, n>>
    ELSE LET x == PairSeq[i][1]
         IN  CrossPass(i + 1,
                       [strs EXCEPT ![x] = <<Zeroed>>],
                       [slots EXCEPT ![x] = IF fitsFail = <<"cross", i - 1>>
                                            THEN slots[x]
                                            ELSE Slot(x, strs[x])],
                       [n EXCEPT ![x] = @ + 1])

\* crosscorrelations_str[x]->len as line 265 reads it for the i-th pair: the stream
\* at index x was reset by an earlier pair with the same x
CrossLens ==
    [i \in 1 .. NBaselines |->
        LET x == PairSeq[i][1]
        IN  IF \E j \in 1 .. i - 1 : PairSeq[j][1] = x
            THEN ResetDim(cross_dims[x]).len
            ELSE cross_dims[x].len]

\* lines 257-288
ReaderCross ==
    /\ ~crashed
    /\ rpc = "cross"
    /\ IF NBaselines > 0 /\ CrossLagSize > 1
       THEN LET r == CrossPass(1, crosscorrelations_str, crosscorrelationsB, ser.cross)
            IN  /\ crosscorrelations_str' = r[1]
                /\ crosscorrelationsB' = r[2]
                /\ cross_dims' =
                      [i \in Baselines |-> IF r[3][i] > ser.cross[i]
                                           THEN ResetDim(cross_dims[i])
                                           ELSE cross_dims[i]]
                /\ ser' = [ser EXCEPT !.cross = r[3], !.n = @ + NBaselines]
                /\ emitLog' = emitLog \cup {Emit("cross")}
       ELSE UNCHANGED <<crosscorrelationsB, crosscorrelations_str, ser, emitLog, cross_dims>>
    /\ rpc' = "totals"
    /\ UNCHANGED encvars
    /\ UNCHANGED setvars
    /\ afterFree' = (afterFree \/ freed)
    /\ UNCHANGED hsvars
    /\ UNCHANGED imgvars
    /\ UNCHANGED pktvars
    /\ UNCHANGED racevars
    /\ UNCHANGED ledvars
    /\ UNCHANGED bandvars
    /\ UNCHANGED pxvars
    /\ blobLog' = (IF NBaselines > 0 /\ CrossLagSize > 1
                    THEN blobLog \o BlobCopies(CrossLens,
                                               {i \in 1 .. NBaselines : fitsFail = <<"cross", i - 1>>},
                                               1, 0, 0, <<>>)
                    ELSE blobLog)
    /\ UNCHANGED auto_dims
    /\ UNCHANGED freed
    /\ UNCHANGED <<envvars, cfgvars, cyclevars, fgvars, pkt, now, timeleft,
                   autocorrelations_str, plot_str, plotB, autocorrelationsB, totvars,
                   passvars, finCur, finAborted, rfin, appended>>

\* lines 213-278 and 376-419 on freed streams: the access may fault
ReaderFault ==
    /\ ~crashed
    /\ freed
    /\ rpc \in {"acc", "plots", "autos", "cross"}
    /\ crashed' = TRUE
    /\ afterFree' = TRUE
    /\ UNCHANGED hsvars
    /\ UNCHANGED dimvars
    /\ UNCHANGED imgvars
    /\ UNCHANGED pktvars
    /\ UNCHANGED racevars
    /\ UNCHANGED ledvars
    /\ UNCHANGED bandvars
    /\ UNCHANGED pxvars
    /\ UNCHANGED blobvars
    /\ UNCHANGED freed
    /\ UNCHANGED encvars
    /\ UNCHANGED setvars
    /\ UNCHANGED <<envvars, cfgvars, cyclevars, fgvars, rdvars, bufvars, slotvars,
                   totvars, delay, hwcmds, iterDelay, firstUsed, passEn, passDir,
                   finvars>>

\* running totals kept only during a cycle
ReaderTotalsGated ==
    /\ ~crashed
    /\ rpc = "totals"
    /\ totalcounts' =
          [x \in Lines |->
              totalcounts[x] + (IF InIntegration /\ lineEnable[x] THEN 1 ELSE 0)]
    /\ totalcorrelations' =
          [i \in Baselines |->
              totalcorrelations[i] +
              (IF InIntegration /\ lineEnable[PairSeq[i + 1][1]] /\ lineEnable[PairSeq[i + 1][2]]
               THEN 1 ELSE 0)]
    /\ rpc' = "loop"
    /\ passDir' = 0
    /\ UNCHANGED encvars
    /\ UNCHANGED setvars
    /\ UNCHANGED tdvars
    /\ UNCHANGED hsvars
    /\ UNCHANGED dimvars
    /\ UNCHANGED imgvars
    /\ packet' = "none"
    /\ consumed' = [x \in Lines |->
                        consumed[x] + (IF InIntegration /\ lineEnable[x] THEN 1 ELSE 0)]
    /\ UNCHANGED <<tpc, tx, reported>>
    /\ UNCHANGED ledvars
    /\ UNCHANGED bandvars
    /\ UNCHANGED pxvars
    /\ UNCHANGED blobvars
    /\ UNCHANGED <<envvars, cfgvars, cyclevars, fgvars, pkt, now, timeleft, bufvars,
                   slotvars, delay, hwcmds, iterDelay, firstUsed, passEn, crashed, finvars>>

\* lines 425-442: the running totals, then the packet is freed
ReaderTotals ==
    /\ ~crashed
    /\ rpc = "totals"
    /\ totalcounts' = [x \in Lines |-> totalcounts[x] + (IF lineEnable[x] THEN 1 ELSE 0)]
    /\ totalcorrelations' =
          [i \in Baselines |->
              totalcorrelations[i] +
              (IF lineEnable[PairSeq[i + 1][1]] /\ lineEnable[PairSeq[i + 1][2]]
               THEN 1 ELSE 0)]
    /\ rpc' = "loop"
    /\ passDir' = 0
    /\ UNCHANGED encvars
    /\ UNCHANGED setvars
    /\ UNCHANGED tdvars
    /\ UNCHANGED hsvars
    /\ UNCHANGED dimvars
    /\ UNCHANGED imgvars
    /\ packet' = "none"
    /\ consumed' = [x \in Lines |-> consumed[x] + (IF lineEnable[x] THEN 1 ELSE 0)]
    /\ UNCHANGED <<tpc, tx, reported>>
    /\ UNCHANGED ledvars
    /\ UNCHANGED bandvars
    /\ UNCHANGED pxvars
    /\ UNCHANGED blobvars
    /\ UNCHANGED <<envvars, cfgvars, cyclevars, fgvars, pkt, now, timeleft, bufvars,
                   slotvars, delay, hwcmds, iterDelay, firstUsed, passEn, crashed, finvars>>

\* ------------------------------------------------------------- the reporting timer
\* lines 938-982: nothing is re-armed when not connected; else the totals are reported
\* and cleared and the timer is set again
TimerHit ==
    /\ ~crashed
    /\ spc = "idle"
    /\ timerArmed
    /\ tpc = "idle"
    /\ IF ~connected
       THEN /\ timerArmed' = FALSE
            /\ UNCHANGED totvars
            /\ UNCHANGED reported
       ELSE /\ timerArmed' = TRUE
            /\ reported' = [x \in Lines |-> reported[x] + totalcounts[x]]
            /\ totalcounts' = [x \in Lines |-> 0]
            /\ totalcorrelations' = [i \in Baselines |-> 0]
    /\ UNCHANGED encvars
    /\ UNCHANGED setvars
    /\ UNCHANGED tdvars
    /\ UNCHANGED hsvars
    /\ UNCHANGED dimvars
    /\ UNCHANGED imgvars
    /\ UNCHANGED pktvars
    /\ UNCHANGED <<tpc, tx, consumed>>
    /\ UNCHANGED ledvars
    /\ UNCHANGED bandvars
    /\ UNCHANGED pxvars
    /\ UNCHANGED blobvars
    /\ UNCHANGED <<connected, threadsRunning, cfgvars, cyclevars, fgvars, rdvars, bufvars,
                   slotvars, passvars, finvars>>

\* TimerHit statement by statement, as the reader thread sees it: nothing in lines
\* 938-982 keeps the reader from running between two of its statements.
\* lines 940-945: the connection test
TimerHitBegin ==
    /\ ~crashed
    /\ spc = "idle"
    /\ timerArmed
    /\ tpc = "idle"
    /\ IF ~connected
       THEN /\ timerArmed' = FALSE
            /\ UNCHANGED <<tpc, tx>>
       ELSE /\ timerArmed' = TRUE
            /\ tpc' = "report"
            /\ tx' = 0
    /\ UNCHANGED <<reported, consumed>>
    /\ UNCHANGED totvars
    /\ UNCHANGED encvars
    /\ UNCHANGED setvars
    /\ UNCHANGED tdvars
    /\ UNCHANGED hsvars
    /\ UNCHANGED dimvars
    /\ UNCHANGED imgvars
    /\ UNCHANGED pktvars
    /\ UNCHANGED ledvars
    /\ UNCHANGED bandvars
    /\ UNCHANGED pxvars
    /\ UNCHANGED blobvars
    /\ UNCHANGED <<connected, threadsRunning, cfgvars, cyclevars, fgvars, rdvars, bufvars,
                   slotvars, passvars, finvars>>

\* lines 947-959: line tx's total is read and published
TimerHitReport ==
    /\ ~crashed
    /\ tpc = "report"
    /\ reported' = [reported EXCEPT ![tx] = @ + totalcounts[tx]]
    /\ tpc' = "reset"
    /\ UNCHANGED <<tx, consumed>>
    /\ UNCHANGED totvars
    /\ UNCHANGED encvars
    /\ UNCHANGED setvars
    /\ UNCHANGED tdvars
    /\ UNCHANGED hsvars
    /\ UNCHANGED dimvars
    /\ UNCHANGED imgvars
    /\ UNCHANGED pktvars
    /\ UNCHANGED ledvars
    /\ UNCHANGED bandvars
    /\ UNCHANGED pxvars
    /\ UNCHANGED blobvars
    /\ UNCHANGED <<connected, timerArmed, threadsRunning, cfgvars, cyclevars, fgvars, rdvars, bufvars,
                   slotvars, passvars, finvars>>

\* lines 960-970, and 972-979 after the last line: line tx's total and the totals of
\* the baselines that start at tx are cleared; after the last line the timer is set
TimerHitReset ==
    /\ ~crashed
    /\ tpc = "reset"
    /\ totalcounts' = [totalcounts EXCEPT ![tx] = 0]
    /\ totalcorrelations' =
          [i \in Baselines |-> IF PairSeq[i + 1][1] = tx THEN 0 ELSE totalcorrelations[i]]
    /\ IF tx + 1 < NLines
       THEN /\ tx' = tx + 1
            /\ tpc' = "report"
       ELSE /\ tx' = 0
            /\ tpc' = "idle"
    /\ timerArmed' = TRUE
    /\ UNCHANGED <<reported, consumed>>
    /\ UNCHANGED encvars
    /\ UNCHANGED setvars
    /\ UNCHANGED tdvars
    /\ UNCHANGED hsvars
    /\ UNCHANGED dimvars
    /\ UNCHANGED imgvars
    /\ UNCHANGED pktvars
    /\ UNCHANGED ledvars
    /\ UNCHANGED bandvars
    /\ UNCHANGED pxvars
    /\ UNCHANGED blobvars
    /\ UNCHANGED <<connected, threadsRunning, cfgvars, cyclevars, fgvars, rdvars, bufvars,
                   slotvars, passvars, finvars>>

\* ------------------------------------------------------------- specification
\* the integration cycle against the reader; the lines are enabled before the first
\* packet and stay where Handshake put them
Next ==
    \/ Handshake
    \/ \E duration \in Durations : StartIntegration(duration)
    \/ StartStamp
    \/ StartFlag
    \/ AbortIntegration
    \/ \E x \in Lines : pkt = 0 /\ ISNewSwitchEnable(x)
    \/ ReaderNotConnected
    \/ ReaderNotReady
    \/ ReaderSleep
    \/ ReaderGetPacket
    \/ ReaderCalcTimeLeft
    \/ ReaderCheck
    \/ ReaderAccumulate
    \/ ReaderFinish
    \/ ReaderPlots
    \/ ReaderAutos
    \/ ReaderCross
    \/ ReaderTotals

Spec == Init /\ [][Next]_vars

\* ------------------------------------------------------------- geometry specification
\* the state after Handshake and an accepted StartIntegration(MaxDur) at instant 0
InitDelay ==
    /\ connected = TRUE
    /\ threadsRunning = TRUE
    /\ timerArmed = TRUE
    /\ lineEnable = [x \in Lines |-> FALSE]
    /\ lineLocation = [x \in Lines |-> 0]
    /\ baselines = [i \in Baselines |-> 0]
    /\ InIntegration = TRUE
    /\ IntegrationRequest = MaxDur
    /\ ExpStart = 0
    /\ timeleft = 0
    /\ now = 0
    /\ spc = "idle"
    /\ ret = "accepted"
    /\ rpc = "loop"
    /\ pkt = 0
    /\ autocorrelations_str = [x \in Lines |-> IF AutoLagSize > 1 THEN <<Garbage>> ELSE <<>>]
    /\ crosscorrelations_str = [i \in Baselines |-> IF CrossLagSize > 1 THEN <<Garbage>> ELSE <<>>]
    /\ plot_str = 0
    /\ plotB = NoSlot
    /\ autocorrelationsB = [x \in Lines |-> NoSlot]
    /\ crosscorrelationsB = [i \in Baselines |-> NoSlot]
    /\ delay = [x \in Lines |-> Garbage]
    /\ totalcounts = [x \in Lines |-> 0]
    /\ totalcorrelations = [i \in Baselines |-> 0]
    /\ crashed = FALSE
    /\ finCur = FALSE
    /\ finAborted = FALSE
    /\ rfin = FALSE
    /\ ser = NoSer
    /\ emitLog = {}
    /\ appended = 0
    /\ hwcmds = <<>>
    /\ passEn = {}
    /\ passDir = 0
    /\ iterDelay = FALSE
    /\ firstUsed = 0
    /\ fitsMayFail = FALSE
    /\ fitsFail = NoFail
    /\ plotSize = 1
    /\ fgAlloc = FALSE
    /\ freed = FALSE
    /\ afterFree = FALSE
    /\ capture = TRUE
    /\ hsRet = "true"
    /\ hsStep = "none"
    /\ auto_dims = ConnectedAutoDims
    /\ cross_dims = ConnectedCrossDims
    /\ plot_buf = GarbageImage(1)
    /\ packet = "none"
    /\ tpc = "idle"
    /\ tx = 0
    /\ reported = [x \in Lines |-> 0]
    /\ consumed = [x \in Lines |-> 0]
    /\ linePower = [x \in Lines |-> FALSE]
    /\ lineActiveLow = [x \in Lines |-> FALSE]
    /\ lineEdgeTrigger = [x \in Lines |-> TRUE]
    /\ lineDifferential = [x \in Lines |-> FALSE]
    /\ leds = [x \in Lines |-> 0]
    /\ has_leds = FALSE
    /\ wavelength = 1
    /\ bandwidth = 1
    /\ lowfreq = Garbage
    /\ highfreq = Garbage
    /\ baseline_wavelength = [i \in Baselines |-> Garbage]
    /\ pw = 0
    /\ pxx = 0
    /\ pyy = 0
    /\ written = {}
    /\ plotted = FALSE
    /\ blobLog = <<>>

\* the antennas are placed and enabled before the first packet, then the reader runs
NextDelay ==
    \/ \E x \in Lines : pkt = 0 /\ ISNewSwitchEnable(x)
    \/ \E i \in Lines, v \in Positions : pkt = 0 /\ ISNewNumberLocation(i, v)
    \/ ReaderNotReady
    \/ ReaderSleep
    \/ ReaderGetPacket
    \/ ReaderCalcTimeLeft
    \/ ReaderCheck
    \/ ReaderAccumulate
    \/ ReaderFinish
    \/ ReaderPlots
    \/ ReaderAutos
    \/ ReaderCross
    \/ ReaderTotals

SpecDelay == InitDelay /\ [][NextDelay]_vars

\* ------------------------------------------------------------- observations
\* rows of a stream that hold a packet's lag vector
PacketRows(buf) == Cardinality({r \in 1 .. Len(buf) : buf[r] >= 1})

\* the iteration that just reached line 425 ran the delay compensation
PassDone == rpc = "totals" /\ iterDelay /\ ~crashed

\* the lines a channel-delay command of this iteration programmed with `ticks'
CrossTargets(ticks) ==
    {x \in Lines : \E k \in 1 .. Len(hwcmds) : hwcmds[k] = <<"cross", x, ticks>>}

\* the tick counts of this iteration's channel-delay commands after the reference's
OtherTicks == {hwcmds[k][3] : k \in {j \in 3 .. Len(hwcmds) : hwcmds[j][1] = "cross"}}

\* ------------------------------------------------------------- C1
\* C1: a StartIntegration call made while an integration is active returns failure
\* and leaves the requested duration, the start timestamp, the integrating flag, and
\* with them the remaining time, as they were.
C1_RefusedStartChangesNothing ==
    [][\A d \in Durations :
          (InIntegration /\ StartIntegration(d)) =>
              /\ ret' = "refused"
              /\ UNCHANGED <<IntegrationRequest, ExpStart, InIntegration>>
              /\ CalcTimeLeft' = CalcTimeLeft]_vars

\* a call was refused and the cycle it met is still running, its duration intact
C1_Witness == ret = "refused" /\ InIntegration /\ IntegrationRequest \in Durations

\* ------------------------------------------------------------- C2
\* C2: when the reader has chosen to finalize a cycle, and no other start was accepted
\* since, the time elapsed since that cycle's start timestamp is at least its
\* requested duration.
C2_FinalizeOnlyWhenElapsed ==
    (rpc = "fin" /\ finCur /\ InIntegration) => (now - ExpStart >= IntegrationRequest)

\* ------------------------------------------------------------- C3
\* C3: no preview, autocorrelation or crosscorrelation block is sent for a cycle
\* after AbortIntegration has ended that cycle.
C3_NoOutputAfterAbort == \A e \in emitLog : ~e.afterAbort

\* ------------------------------------------------------------- C4
\* C4: once a finalize is through, and no start was accepted since, the cycle is idle,
\* no autocorrelation or crosscorrelation buffer holds a packet row, and
\* N + N(N-1)/2 + 1 serializations were attempted.
C4_FullCycleResets ==
    (rpc = "totals" /\ rfin /\ finCur /\ ~finAborted) =>
        /\ ~InIntegration
        /\ \A x \in Lines : PacketRows(autocorrelations_str[x]) = 0
        /\ \A i \in Baselines : PacketRows(crosscorrelations_str[i]) = 0
        /\ ser.n = NLines + NBaselines + 1

\* ------------------------------------------------------------- C5
\* C5: a finalize serializes the preview once, every line's buffer once and every
\* baseline's buffer once, slot k pointing at buffer k's rows, and resets every one.
C5_EachBufferOnce ==
    (rpc = "totals" /\ rfin) =>
        /\ ser.plot = 1
        /\ \A x \in Lines :
              /\ ser.auto[x] = 1
              /\ autocorrelationsB[x].set /\ autocorrelationsB[x].src = x
              /\ autocorrelations_str[x] = <<Zeroed>>
        /\ \A i \in Baselines :
              /\ ser.cross[i] = 1
              /\ crosscorrelationsB[i].set /\ crosscorrelationsB[i].src = i
              /\ crosscorrelations_str[i] = <<Zeroed>>

\* ------------------------------------------------------------- C6
\* C6: outside a finalize, every autocorrelation and crosscorrelation buffer holds as
\* many packet rows as packets were appended since connect or the last finalize.
C6_RowsEqualPackets ==
    (rpc \notin {"plots", "autos", "cross"}) =>
        /\ \A x \in Lines : PacketRows(autocorrelations_str[x]) = appended
        /\ \A i \in Baselines : PacketRows(crosscorrelations_str[i]) = appended

\* ------------------------------------------------------------- C7
\* C7: every ready packet processed with at least two lines enabled runs the delay
\* compensation and programs the hardware, whatever the cycle's state.
C7_DelayOnEveryPacket ==
    (rpc = "totals" /\ ~crashed /\ Cardinality(passEn) >= 2) =>
        (iterDelay /\ hwcmds # <<>>)

\* ------------------------------------------------------------- C8
\* C8 as stated: in a pass over at least two enabled lines exactly one line is
\* programmed with 0 ticks and every tick count lies in 0 .. DelaySize-1.
C8_ExactlyOneZero ==
    (PassDone /\ Cardinality(passEn) >= 2) =>
        /\ Cardinality(CrossTargets(0)) = 1
        /\ \A t \in OtherTicks : t \in 0 .. DelaySize - 1

\* C8 amended: in a pass over at least two enabled lines one line, the reference, is
\* programmed first and with 0 ticks, no later command addresses it, and every tick
\* count programmed for another line lies in 0 .. DelaySize-1, 0 included.
C8_ReferenceZeroOthersClamped ==
    (PassDone /\ Cardinality(passEn) >= 2) =>
        /\ Len(hwcmds) >= 2
        /\ hwcmds[1][1] = "auto" /\ hwcmds[2][1] = "cross"
        /\ hwcmds[1][2] = hwcmds[2][2]
        /\ hwcmds[2][3] = 0
        /\ \A k \in 3 .. Len(hwcmds) : hwcmds[k][2] # hwcmds[2][2]
        /\ \A t \in OtherTicks : t \in 0 .. DelaySize - 1

\* a pass programmed a line other than the reference with the deepest tap, from a
\* delay that converts to more ticks than the delay line holds
C8_Witness ==
    /\ PassDone /\ Cardinality(passEn) >= 2
    /\ DelaySize - 1 \in OtherTicks
    /\ \E i \in Baselines, dir \in Dirs : DelayClocks(GetDelay(dir, i)) > DelaySize - 1

\* ------------------------------------------------------------- C9
\* C9: a pass with fewer than two lines enabled issues no channel command.
C9_FewerThanTwoNoOp ==
    (PassDone /\ Cardinality(passEn) < 2) => hwcmds = <<>>

\* ------------------------------------------------------------- C10
\* C10: the delay computation never uses the first-enabled index while it is -1, and
\* the iteration does not crash.
C10_FirstIndexInRange == firstUsed \in Lines /\ ~crashed

\* ------------------------------------------------------------- encoder specification
\* the state after Handshake, with a FITS library that can fail
InitFits ==
    /\ connected = TRUE
    /\ threadsRunning = TRUE
    /\ timerArmed = TRUE
    /\ lineEnable = [x \in Lines |-> FALSE]
    /\ lineLocation = [x \in Lines |-> 0]
    /\ baselines = [i \in Baselines |-> 0]
    /\ InIntegration = FALSE
    /\ IntegrationRequest = 0
    /\ ExpStart = Garbage
    /\ timeleft = 0
    /\ now = 0
    /\ spc = "idle"
    /\ ret = "none"
    /\ rpc = "loop"
    /\ pkt = 0
    /\ autocorrelations_str = [x \in Lines |-> IF AutoLagSize > 1 THEN <<Garbage>> ELSE <<>>]
    /\ crosscorrelations_str = [i \in Baselines |-> IF CrossLagSize > 1 THEN <<Garbage>> ELSE <<>>]
    /\ plot_str = 0
    /\ plotB = NoSlot
    /\ autocorrelationsB = [x \in Lines |-> NoSlot]
    /\ crosscorrelationsB = [i \in Baselines |-> NoSlot]
    /\ delay = [x \in Lines |-> Garbage]
    /\ totalcounts = [x \in Lines |-> 0]
    /\ totalcorrelations = [i \in Baselines |-> 0]
    /\ crashed = FALSE
    /\ finCur = FALSE
    /\ finAborted = FALSE
    /\ rfin = FALSE
    /\ ser = NoSer
    /\ emitLog = {}
    /\ appended = 0
    /\ hwcmds = <<>>
    /\ passEn = {}
    /\ passDir = 0
    /\ iterDelay = FALSE
    /\ firstUsed = 0
    /\ fitsMayFail = TRUE
    /\ fitsFail = NoFail
    /\ plotSize = 1
    /\ fgAlloc = FALSE
    /\ freed = FALSE
    /\ afterFree = FALSE
    /\ capture = TRUE
    /\ hsRet = "true"
    /\ hsStep = "none"
    /\ auto_dims = ConnectedAutoDims
    /\ cross_dims = ConnectedCrossDims
    /\ plot_buf = GarbageImage(1)
    /\ packet = "none"
    /\ tpc = "idle"
    /\ tx = 0
    /\ reported = [x \in Lines |-> 0]
    /\ consumed = [x \in Lines |-> 0]
    /\ linePower = [x \in Lines |-> FALSE]
    /\ lineActiveLow = [x \in Lines |-> FALSE]
    /\ lineEdgeTrigger = [x \in Lines |-> TRUE]
    /\ lineDifferential = [x \in Lines |-> FALSE]
    /\ leds = [x \in Lines |-> 0]
    /\ has_leds = FALSE
    /\ wavelength = 1
    /\ bandwidth = 1
    /\ lowfreq = Garbage
    /\ highfreq = Garbage
    /\ baseline_wavelength = [i \in Baselines |-> Garbage]
    /\ pw = 0
    /\ pxx = 0
    /\ pyy = 0
    /\ written = {}
    /\ plotted = FALSE
    /\ blobLog = <<>>

\* integration cycles against the reader, lines 0 and 1 enabled at most
NextFits ==
    \/ \E duration \in Durations : StartIntegration(duration)
    \/ StartStamp
    \/ StartFlag
    \/ \E x \in {0, 1} \cap Lines : pkt = 0 /\ ~lineEnable[x] /\ ISNewSwitchEnable(x)
    \/ ReaderNotReady
    \/ ReaderSleep
    \/ ReaderGetPacket
    \/ ReaderCalcTimeLeft
    \/ ReaderCheck
    \/ ReaderAccumulate
    \/ ReaderFinish
    \/ ReaderPlots
    \/ ReaderAutos
    \/ ReaderCross
    \/ ReaderTotals

SpecFits == InitFits /\ [][NextFits]_vars

\* the output slot the failing createFITS call would have filled
FailedSlot ==
    IF fitsFail[1] = "plot" THEN plotB
    ELSE IF fitsFail[1] = "auto" THEN autocorrelationsB[fitsFail[2]]
    ELSE crosscorrelationsB[PairSeq[fitsFail[2] + 1][1]]

\* ------------------------------------------------------------- C11
\* C11: after a finalize in which the encoder failed for one buffer, that buffer's
\* output slot is unset, every other createFITS call was still made and the cycle is
\* idle if no start was accepted since.
C11_FailedSlotUnset ==
    (rpc = "totals" /\ rfin /\ fitsFail # NoFail) =>
        /\ ~FailedSlot.set
        /\ ser.n = NLines + NBaselines + nplots
        /\ (finCur => ~InIntegration)

\* ------------------------------------------------------------- C12
\* C12: a reader iteration that finds no packet ready changes neither the cycle state,
\* the remaining time, the packet count, the buffers, the preview, the output slots,
\* the delays nor the totals; it sleeps the packet period and then polls again.
C12_NotReadyConsumesNothing ==
    [][(ReaderNotReady \/ (rpc = "wait" /\ ReaderSleep)) =>
          /\ UNCHANGED <<cyclevars, timeleft, pkt, now, bufvars, slotvars, delay, hwcmds,
                         totvars, appended>>
          /\ rpc' = (IF rpc = "loop" THEN "wait" ELSE "loop")]_vars

\* the reader sleeps on a not-ready poll in the middle of a cycle that has rows
C12_Witness == rpc = "wait" /\ InIntegration /\ appended > 0 /\ timeleft > 0

C14_DisabledBuffersDoNotGrow ==
    /\ \A x \in Lines : ~lineEnable[x] => PacketRows(autocorrelations_str[x]) = 0
    /\ \A i \in Baselines :
          ~(lineEnable[PairSeq[i + 1][1]] /\ lineEnable[PairSeq[i + 1][2]])
              => PacketRows(crosscorrelations_str[i]) = 0

\* ------------------------------------------------------------- settings specification
\* the state after Handshake
InitSettings ==
    /\ connected = TRUE
    /\ threadsRunning = TRUE
    /\ timerArmed = TRUE
    /\ lineEnable = [x \in Lines |-> FALSE]
    /\ lineLocation = [x \in Lines |-> 0]
    /\ baselines = [i \in Baselines |-> 0]
    /\ InIntegration = FALSE
    /\ IntegrationRequest = 0
    /\ ExpStart = Garbage
    /\ timeleft = 0
    /\ now = 0
    /\ spc = "idle"
    /\ ret = "none"
    /\ rpc = "loop"
    /\ pkt = 0
    /\ autocorrelations_str = [x \in Lines |-> IF AutoLagSize > 1 THEN <<Garbage>> ELSE <<>>]
    /\ crosscorrelations_str = [i \in Baselines |-> IF CrossLagSize > 1 THEN <<Garbage>> ELSE <<>>]
    /\ plot_str = 0
    /\ plotB = NoSlot
    /\ autocorrelationsB = [x \in Lines |-> NoSlot]
    /\ crosscorrelationsB = [i \in Baselines |-> NoSlot]
    /\ delay = [x \in Lines |-> Garbage]
    /\ totalcounts = [x \in Lines |-> 0]
    /\ totalcorrelations = [i \in Baselines |-> 0]
    /\ crashed = FALSE
    /\ finCur = FALSE
    /\ finAborted = FALSE
    /\ rfin = FALSE
    /\ ser = NoSer
    /\ emitLog = {}
    /\ appended = 0
    /\ hwcmds = <<>>
    /\ passEn = {}
    /\ passDir = 0
    /\ iterDelay = FALSE
    /\ firstUsed = 0
    /\ fitsMayFail = FALSE
    /\ fitsFail = NoFail
    /\ plotSize = 1
    /\ fgAlloc = FALSE
    /\ freed = FALSE
    /\ afterFree = FALSE
    /\ capture = TRUE
    /\ hsRet = "true"
    /\ hsStep = "none"
    /\ auto_dims = ConnectedAutoDims
    /\ cross_dims = ConnectedCrossDims
    /\ plot_buf = GarbageImage(1)
    /\ packet = "none"
    /\ tpc = "idle"
    /\ tx = 0
    /\ reported = [x \in Lines |-> 0]
    /\ consumed = [x \in Lines |-> 0]
    /\ linePower = [x \in Lines |-> FALSE]
    /\ lineActiveLow = [x \in Lines |-> FALSE]
    /\ lineEdgeTrigger = [x \in Lines |-> TRUE]
    /\ lineDifferential = [x \in Lines |-> FALSE]
    /\ leds = [x \in Lines |-> 0]
    /\ has_leds = FALSE
    /\ wavelength = 1
    /\ bandwidth = 1
    /\ lowfreq = Garbage
    /\ highfreq = Garbage
    /\ baseline_wavelength = [i \in Baselines |-> Garbage]
    /\ pw = 0
    /\ pxx = 0
    /\ pyy = 0
    /\ written = {}
    /\ plotted = FALSE
    /\ blobLog = <<>>

\* settings updates against the integration cycle and the reader, lines 0 and 1 enabled
NextSettings ==
    \/ \E size \in PlotSizes : ISNewNumberSettings(size)
    \/ \E duration \in Durations : StartIntegration(duration)
    \/ StartStamp
    \/ StartFlag
    \/ \E x \in {0, 1} \cap Lines : pkt = 0 /\ ~lineEnable[x] /\ ISNewSwitchEnable(x)
    \/ ReaderNotReady
    \/ ReaderSleep
    \/ ReaderGetPacket
    \/ ReaderCalcTimeLeft
    \/ ReaderCheck
    \/ ReaderAccumulate
    \/ ReaderFinish
    \/ ReaderPlots
    \/ ReaderAutos
    \/ ReaderCross
    \/ ReaderTotals

SpecSettings == InitSettings /\ [][NextSettings]_vars

\* ------------------------------------------------------------- C15
\* C15: no foreground handler resizes or reallocates a buffer while a cycle is
\* integrating.
C15_NoForegroundAllocInCycle == ~fgAlloc

\* ------------------------------------------------------------- teardown specification
\* connect, disconnect and the integration cycle against the reader
NextTeardown ==
    \/ Handshake
    \/ Disconnect
    \/ \E duration \in Durations : StartIntegration(duration)
    \/ StartStamp
    \/ StartFlag
    \/ ReaderNotConnected
    \/ ReaderNotReady
    \/ ReaderSleep
    \/ ReaderGetPacket
    \/ ReaderCalcTimeLeft
    \/ ReaderCheck
    \/ ReaderAccumulate
    \/ ReaderFinish
    \/ ReaderPlots
    \/ ReaderAutos
    \/ ReaderCross
    \/ ReaderFault
    \/ ReaderTotals

SpecTeardown == Init /\ [][NextTeardown]_vars

\* ------------------------------------------------------------- C16
\* C16: once Disconnect has freed the streams the reader neither reads nor writes one
\* and programs no channel.
C16_NoUseAfterDisconnect == ~afterFree

\* the reader thread's steps; the operating system keeps scheduling the thread
ReaderNext ==
    \/ ReaderNotConnected
    \/ ReaderNotReady
    \/ ReaderSleep
    \/ ReaderGetPacket
    \/ ReaderCalcTimeLeft
    \/ ReaderCheck
    \/ ReaderAccumulate
    \/ ReaderFinish
    \/ ReaderPlots
    \/ ReaderAutos
    \/ ReaderCross
    \/ ReaderFault
    \/ ReaderTotals

FairSpecTeardown == SpecTeardown /\ WF_vars(ReaderNext)

\* ------------------------------------------------------------- C17
\* C17: after Disconnect the reader's running flag is eventually cleared (or the
\* thread is gone, or the device was connected again).
C17_ReaderStopsAfterDisconnect == freed ~> (~threadsRunning \/ crashed \/ ~freed)

\* ------------------------------------------------------------- cycle specification
\* after Handshake: cycles are started and never aborted, the device stays connected
NextCycle ==
    \/ \E duration \in Durations : StartIntegration(duration)
    \/ StartStamp
    \/ StartFlag
    \/ \E x \in Lines : pkt = 0 /\ ISNewSwitchEnable(x)
    \/ ReaderNotReady
    \/ ReaderSleep
    \/ ReaderGetPacket
    \/ ReaderCalcTimeLeft
    \/ ReaderCheck
    \/ ReaderAccumulate
    \/ ReaderFinish
    \/ ReaderPlots
    \/ ReaderAutos
    \/ ReaderCross
    \/ ReaderTotals

SpecCycle == InitSettings /\ [][NextCycle]_vars

\* the reader thread keeps running, the hardware keeps delivering packets while its
\* budget lasts, a StartIntegration call that began runs to its end
FairSpecCycle ==
    SpecCycle /\ WF_vars(ReaderNext) /\ SF_vars(ReaderGetPacket)
              /\ WF_vars(StartStamp \/ StartFlag)

\* the packets still to come outlast the running cycle
PacketsOutlastCycle ==
    /\ InIntegration /\ spc = "idle"
    /\ pkt < MaxPackets
    /\ CalcTimeLeft < MaxPackets - pkt

\* ------------------------------------------------------------- C18
\* C18: a running cycle that the packets still to come outlast is eventually
\* finalized, its serialization run to the end.
C18_CycleEventuallyFinalizes == PacketsOutlastCycle ~> (rfin /\ rpc = "totals")

\* ------------------------------------------------------------- timer specification
\* the reporting timer against the reader and the integration cycle, lines 0 and 1
\* enabled at most
NextTimer ==
    \/ Handshake
    \/ TimerHit
    \/ \E duration \in Durations : StartIntegration(duration)
    \/ StartStamp
    \/ StartFlag
    \/ \E x \in {0, 1} \cap Lines : pkt = 0 /\ ~lineEnable[x] /\ ISNewSwitchEnable(x)
    \/ ReaderNotConnected
    \/ ReaderNotReady
    \/ ReaderSleep
    \/ ReaderGetPacket
    \/ ReaderCalcTimeLeft
    \/ ReaderCheck
    \/ ReaderAccumulate
    \/ ReaderFinish
    \/ ReaderPlots
    \/ ReaderAutos
    \/ ReaderCross
    \/ ReaderTotals

SpecTimer == Init /\ [][NextTimer]_vars

\* ------------------------------------------------------------- C19
\* C19: the totals step of a ready packet adds the packet's count to every enabled
\* line's total and to every total of a baseline with both ends enabled, whether a
\* cycle is active or not; a reporting tick while connected zeroes every total and
\* leaves the buffers, the preview, the output slots and the cycle alone.
C19_TotalsEveryPacketResetEveryTick ==
    [][/\ ReaderTotals =>
            /\ \A x \in Lines :
                  totalcounts'[x] = totalcounts[x] + (IF lineEnable[x] THEN 1 ELSE 0)
            /\ \A i \in Baselines :
                  totalcorrelations'[i] = totalcorrelations[i] +
                      (IF lineEnable[PairSeq[i + 1][1]] /\ lineEnable[PairSeq[i + 1][2]]
                       THEN 1 ELSE 0)
       /\ (connected /\ TimerHit) =>
            /\ \A x \in Lines : totalcounts'[x] = 0
            /\ \A i \in Baselines : totalcorrelations'[i] = 0
            /\ UNCHANGED <<bufvars, slotvars, cyclevars, appended>>]_vars

\* lines are enabled only before the first packet and connect happens once, so a
\* total of one after the second packet means a reporting tick cleared the totals
\* between two packets; the last packet was counted outside any cycle
C19_Witness ==
    /\ rpc = "loop" /\ pkt >= 2 /\ ~InIntegration /\ ~iterDelay
    /\ \E x \in Lines : lineEnable[x] /\ totalcounts[x] = 1
    /\ \E i \in Baselines : totalcorrelations[i] = 1

\* ------------------------------------------------------------- connect specification
\* connecting, with any of the four checks failing or all passing, and disconnecting,
\* against the reader and the integration cycle
NextHandshake ==
    \/ Handshake
    \/ \E step \in HandshakeSteps : HandshakeFails(step)
    \/ Disconnect
    \/ \E duration \in Durations : StartIntegration(duration)
    \/ StartStamp
    \/ StartFlag
    \/ ReaderNotConnected
    \/ ReaderNotReady
    \/ ReaderSleep
    \/ ReaderGetPacket
    \/ ReaderCalcTimeLeft
    \/ ReaderCheck
    \/ ReaderAccumulate
    \/ ReaderFinish
    \/ ReaderPlots
    \/ ReaderAutos
    \/ ReaderCross
    \/ ReaderFault
    \/ ReaderTotals

SpecHandshake == Init /\ [][NextHandshake]_vars

\* ------------------------------------------------------------- C20
\* C20: a Handshake in which any of the four checks fails returns false at that
\* check: the device stays not connected, the antenna and baseline tables, the
\* totals, the delays, the streams and the output slots are what they were, capture
\* is not enabled, and no second attempt is made (the state after it is that of a
\* single failed check; connecting again takes another Handshake call).
C20_FailedHandshakeAllocatesNothing ==
    [][/\ \A step \in HandshakeSteps :
            HandshakeFails(step) =>
                /\ hsRet' = "false" /\ hsStep' = step
                /\ ~connected' /\ ~capture'
                /\ UNCHANGED <<cfgvars, bufvars, slotvars, totvars, delay, appended>>
       /\ hsRet' = "false" => (~connected' /\ ~capture')]_vars

\* a Handshake failed at the device detection after an earlier session was
\* disconnected: nothing was allocated again and capture is off
C20_Witness ==
    /\ hsRet = "false" /\ hsStep = "is_detected"
    /\ freed /\ ~connected /\ ~capture
    /\ \A x \in Lines : autocorrelations_str[x] = <<>>

\* ------------------------------------------------------------- C21
\* rows of a stream, or of an output slot's serialized copy, holding packet p's vector
RowsOf(buf, p) == Cardinality({r \in 1 .. Len(buf) : buf[r] = p})

\* the iteration that just reached line 425 found the cycle integrating at line 198
ConsumedIntegrating == rpc = "totals" /\ ~crashed /\ (iterDelay \/ rfin)

\* C21: when an iteration whose packet was consumed while the cycle was integrating
\* reaches the totals, that packet's lag vector is held exactly once for every line
\* and every baseline, in the stream or in the copy the finalize serialized; this
\* includes the packet on which the duration was found elapsed.
C21_EachPacketAppliedOnce ==
    ConsumedIntegrating =>
        /\ \A x \in Lines :
              RowsOf(autocorrelations_str[x], pkt) + RowsOf(autocorrelationsB[x].rows, pkt) = 1
        /\ \A i \in Baselines :
              RowsOf(crosscorrelations_str[i], pkt) + RowsOf(crosscorrelationsB[i].rows, pkt) = 1

\* ------------------------------------------------------------- C22
\* C22: while connected, every autocorrelation and crosscorrelation stream's length
\* is its width times its row count, its width is the lag vector length Handshake
\* gave it, and its row count is the number of rows it holds.
C22_LengthIsWidthTimesRows ==
    connected =>
        /\ \A x \in Lines :
              /\ auto_dims[x].len = auto_dims[x].w * auto_dims[x].h
              /\ auto_dims[x].w = (IF AutoLagSize > 1 THEN AutoWidth ELSE 0)
              /\ auto_dims[x].h = Len(autocorrelations_str[x])
        /\ \A i \in Baselines :
              /\ cross_dims[i].len = cross_dims[i].w * cross_dims[i].h
              /\ cross_dims[i].w = (IF CrossLagSize > 1 THEN CrossWidth ELSE 0)
              /\ cross_dims[i].h = Len(crosscorrelations_str[i])

\* a second cycle is appending: line 0's stream was reset by a finalize and has
\* grown again, the last baseline's stream was never reset and kept growing
C22_Witness ==
    /\ connected /\ rpc = "totals" /\ iterDelay /\ ~crashed
    /\ \E x \in Lines : autocorrelationsB[x].set /\ auto_dims[x].h = 2
    /\ cross_dims[NBaselines - 1].h > 2
    /\ cross_dims[0].len = 2 * CrossWidth

\* ------------------------------------------------------------- C23
\* C23: when StartIntegration has accepted a request, no autocorrelation or
\* crosscorrelation buffer holds a packet row and the preview holds no value: what an
\* earlier cycle, finalized or aborted, put there is gone.
C23_BuffersEmptyAtStart ==
    (spc = "request") =>
        /\ \A x \in Lines : PacketRows(autocorrelations_str[x]) = 0
        /\ \A i \in Baselines : PacketRows(crosscorrelations_str[i]) = 0
        /\ plot_str = 0

\* ------------------------------------------------------------- C24
\* C24: a reader iteration that finds the device not connected takes no packet,
\* issues no channel command and changes neither the cycle, the remaining time, the
\* buffers, their dimensions, the output slots, the delays nor the totals; it backs
\* off, returns to the head of the loop and does not fault.
C24_NotConnectedOnlyBacksOff ==
    [][(ReaderNotConnected \/ (rpc = "backoff" /\ ReaderSleep)) =>
          /\ UNCHANGED <<cyclevars, timeleft, pkt, now, bufvars, dimvars, slotvars,
                         delay, hwcmds, totvars, appended, crashed, threadsRunning>>
          /\ rpc' = (IF rpc = "loop" THEN "backoff" ELSE "loop")]_vars

\* the reader backs off after a Disconnect that came in the middle of a cycle with a
\* packet already taken
C24_Witness ==
    /\ rpc = "backoff" /\ ~connected /\ freed /\ ~crashed
    /\ InIntegration /\ pkt > 0

\* ------------------------------------------------------------- C25
\* the line the pass of this iteration took as reference: the first command's target
PassReference == hwcmds[2][2]

\* no enabled line's value at line 331 is greater than x's; a value that is not a
\* number (the line sits at the center) is greater than none and less than none
AttainsMaximum(dir, x) ==
    \A o \in Enabled :
        (DelayTmpIsNaN(o) \/ DelayTmpIsNaN(x)) \/ DelayTmp(dir, o) <= DelayTmp(dir, x)

\* C25: in a pass with at least one line enabled the reference is an enabled line
\* whose per-unit-distance delay is the greatest among the enabled lines, and every
\* channel command of the pass addresses an enabled line, whatever the sign of the
\* values.
C25_ReferenceIsEnabledMaximum ==
    (PassDone /\ Enabled # {}) =>
        /\ PassReference \in Enabled
        /\ AttainsMaximum(passDir, PassReference)
        /\ \A k \in 1 .. Len(hwcmds) : hwcmds[k][2] \in Enabled

\* ------------------------------------------------------------- C26
\* the positions in hwcmds of the channel-delay commands addressed to line x
CrossCommands(x) == {k \in 1 .. Len(hwcmds) : hwcmds[k][1] = "cross" /\ hwcmds[k][2] = x}

\* the clamped tick count of the baseline between lines a and b for direction dir
PairTicks(dir, a, b) ==
    Clamp(DelayClocks(GetDelay(dir, IF a < b THEN PairIdx(a, b) ELSE PairIdx(b, a))))

\* C26: in a pass over at least two enabled lines every enabled line other than the
\* reference receives exactly one channel-delay command, carrying the clamped tick
\* count of its baseline with the reference, and every command addressed to the
\* reference carries zero.
C26_OneCommandPerNonReference ==
    (PassDone /\ Cardinality(Enabled) >= 2) =>
        /\ \A x \in Enabled \ {PassReference} :
              /\ Cardinality(CrossCommands(x)) = 1
              /\ \A k \in CrossCommands(x) :
                    hwcmds[k][3] = PairTicks(passDir, x, PassReference)
        /\ \A k \in 1 .. Len(hwcmds) : hwcmds[k][2] = PassReference => hwcmds[k][3] = 0

\* ------------------------------------------------------------- C27
\* the place of the pair (x, y) among the pairs x < y in lexicographic order, from 0
LexRank(x, y) ==
    Cardinality({p \in PairSet : p[1] < x \/ (p[1] = x /\ p[2] < y)})

\* C27: after every step the baseline stored at the lexicographic place of the pair
\* (x, y), x < y, is position[y] - position[x] for the current positions, and an
\* update of line i's location leaves every baseline of a pair without i as it was.
C27_BaselinesFollowLocations ==
    [][/\ \A p \in PairSet :
            baselines'[LexRank(p[1], p[2])] = lineLocation'[p[2]] - lineLocation'[p[1]]
       /\ \A i \in Lines, v \in Positions :
            ISNewNumberLocation(i, v) =>
                \A p \in PairSet :
                    (p[1] # i /\ p[2] # i) =>
                        baselines'[LexRank(p[1], p[2])] = baselines[LexRank(p[1], p[2])]]_vars

\* the first and the last line were both moved: the baseline between them and the
\* baseline from the middle line to the last are those of the new positions
C27_Witness ==
    /\ lineLocation[0] = MaxPos /\ lineLocation[NLines - 1] = 1 /\ lineLocation[1] = 0
    /\ baselines[LexRank(0, NLines - 1)] = 1 - MaxPos
    /\ baselines[LexRank(1, NLines - 1)] = 1

\* ------------------------------------------------------------- C28
\* C28: in every state every pixel z of the preview, 0 <= z < w*h, holds a value and
\* it is the value of pixel w*h-1-z.
C28_PreviewPointSymmetric ==
    \A z \in 0 .. Len(plot_buf) - 1 :
        /\ plot_buf[z + 1] # Garbage
        /\ plot_buf[z + 1] = plot_buf[Len(plot_buf) - z]

\* ------------------------------------------------------------- C29
\* C29: whenever the reader stands at the head of its loop, the packet it allocated
\* last has been freed, after a ready packet and after a not-ready poll alike.
C29_NoPacketHeldAtLoopHead == (rpc = "loop") => (packet = "none")

\* ------------------------------------------------------------- C30
\* the enabled lines whose value at line 331 is a number no enabled line exceeds
MaximumCandidates(dir) ==
    {x \in Enabled :
        /\ ~DelayTmpIsNaN(x)
        /\ \A o \in Enabled : DelayTmpIsNaN(o) \/ DelayTmp(dir, o) <= DelayTmp(dir, x)}

\* the line the claim's rule selects: the lowest index among the candidates, the
\* lowest enabled index when no enabled line has a value
LowestIndexMaximum(dir) ==
    IF MaximumCandidates(dir) # {} THEN Min(MaximumCandidates(dir)) ELSE Min(Enabled)

\* C30: the reference of a pass is a function of the enabled set, the positions and
\* the sky direction: it is the lowest-indexed enabled line among those attaining
\* the maximum value.
C30_ReferenceIsLowestIndexMaximum ==
    (PassDone /\ Enabled # {}) => PassReference = LowestIndexMaximum(passDir)

\* ------------------------------------------------------------- C31
\* the reader is between line 203 and line 288: it serializes and resets the buffers
Finalizing == rpc \in {"plots", "autos", "cross"}

\* C31: while the reader is finalizing a cycle no start request has been accepted and
\* no cycle is integrating.
C31_NoStartWhileFinalizing ==
    Finalizing => (spc = "idle" /\ ~InIntegration)

\* ------------------------------------------------------------- C32
\* C32: every block a finalize copies into the output blob ends within the size the
\* blob was last resized to, and is written at the total length of the blocks copied
\* before it in its group.
C32_BlobWritesInRange ==
    \A k \in 1 .. Len(blobLog) :
        /\ blobLog[k].off + blobLog[k].n <= blobLog[k].alloc
        /\ blobLog[k].off = blobLog[k].copied

\* ------------------------------------------------------------- the pixel update alone
\* The widths and the truncated offsets the pixel update is applied to; the widths are
\* even and odd, the offsets reach past half the largest width on both sides.
MaxWidth == 5
MaxOffset == 3

InitPixel ==
    /\ connected = FALSE
    /\ threadsRunning = TRUE
    /\ timerArmed = TRUE
    /\ lineEnable = [x \in Lines |-> FALSE]
    /\ lineLocation = [x \in Lines |-> 0]
    /\ baselines = [i \in Baselines |-> 0]
    /\ InIntegration = FALSE
    /\ IntegrationRequest = 0
    /\ ExpStart = Garbage          \* the constructor leaves it unset
    /\ timeleft = 0
    /\ now = 0
    /\ spc = "idle"
    /\ ret = "none"
    /\ rpc = "loop"
    /\ pkt = 0
    /\ autocorrelations_str = [x \in Lines |-> <<>>]
    /\ crosscorrelations_str = [i \in Baselines |-> <<>>]
    /\ plot_str = 0
    /\ plotB = NoSlot
    /\ autocorrelationsB = [x \in Lines |-> NoSlot]
    /\ crosscorrelationsB = [i \in Baselines |-> NoSlot]
    /\ delay = [x \in Lines |-> Garbage]
    /\ totalcounts = [x \in Lines |-> 0]
    /\ totalcorrelations = [i \in Baselines |-> 0]
    /\ crashed = FALSE
    /\ finCur = FALSE
    /\ finAborted = FALSE
    /\ rfin = FALSE
    /\ ser = NoSer
    /\ emitLog = {}
    /\ appended = 0
    /\ hwcmds = <<>>
    /\ passEn = {}
    /\ passDir = 0
    /\ iterDelay = FALSE
    /\ firstUsed = 0
    /\ fitsMayFail = FALSE
    /\ fitsFail = NoFail
    /\ plotSize = 1
    /\ fgAlloc = FALSE
    /\ freed = FALSE
    /\ afterFree = FALSE
    /\ capture = FALSE
    /\ hsRet = "none"
    /\ hsStep = "none"
    /\ auto_dims = [x \in Lines |-> NoDim]
    /\ cross_dims = [i \in Baselines |-> NoDim]
    /\ plot_buf = <<>>
    /\ packet = "none"
    /\ tpc = "idle"
    /\ tx = 0
    /\ reported = [x \in Lines |-> 0]
    /\ consumed = [x \in Lines |-> 0]
    /\ linePower = [x \in Lines |-> FALSE]
    /\ lineActiveLow = [x \in Lines |-> FALSE]
    /\ lineEdgeTrigger = [x \in Lines |-> TRUE]
    /\ lineDifferential = [x \in Lines |-> FALSE]
    /\ leds = [x \in Lines |-> 0]
    /\ has_leds = FALSE
    /\ wavelength = 1
    /\ bandwidth = 1
    /\ lowfreq = Garbage
    /\ highfreq = Garbage
    /\ baseline_wavelength = [i \in Baselines |-> Garbage]
    /\ pw \in 1 .. MaxWidth
    /\ pxx \in -MaxOffset .. MaxOffset
    /\ pyy \in -MaxOffset .. MaxOffset
    /\ written = {}
    /\ plotted = FALSE
    /\ blobLog = <<>>

\* lines 376-390 for one enabled pair: w = h = pw, the truncated offsets are (pxx, pyy)
PlotPoint ==
    /\ ~plotted
    /\ written' = PlotWrites(pxx, pyy, pw, pw)
    /\ plotted' = TRUE
    /\ UNCHANGED <<pw, pxx, pyy>>
    /\ UNCHANGED <<envvars, cfgvars, cyclevars, fgvars, rdvars, bufvars, slotvars, totvars,
                   passvars, finvars, encvars, setvars, tdvars, hsvars, dimvars,
                   imgvars, pktvars, racevars, ledvars, bandvars, blobvars>>

NextPixel == PlotPoint

SpecPixel == InitPixel /\ [][NextPixel]_vars

\* C33: every index the pixel update writes lies in 0 .. w*h-1, for even and odd
\* widths w = h, and offsets outside [-w/2, w/2) on either axis write nothing.
C33_PixelIndexInRange ==
    plotted =>
        /\ \A z \in written : z >= 0 /\ z <= pw * pw - 1
        /\ (\/ pxx < -(pw \div 2) \/ pxx >= pw \div 2
            \/ pyy < -(pw \div 2) \/ pyy >= pw \div 2) => written = {}

\* an odd width whose update wrote the first pixel of the image and its counterpart
C33_Witness ==
    /\ plotted
    /\ pw % 2 = 1
    /\ pw > 1
    /\ written # {}
    /\ pxx = -(pw \div 2)
    /\ pyy = -(pw \div 2)


\* ------------------------------------------------------------- C34
\* settings updates alone, on a connected driver
NextBand ==
    \E wl \in Waves, bw \in Waves, size \in PlotSizes : ISNewNumberSettingsTo(wl, bw, size)

SpecBand == InitSettings /\ [][NextBand]_vars

\* C34: a settings update that changes the wavelength or the bandwidth publishes the
\* low and high frequency derived from the newly set wavelength and bandwidth, and
\* leaves every baseline with the newly set wavelength.
C34_BandFromNewSettings ==
    [][(wavelength' # wavelength \/ bandwidth' # bandwidth) =>
          /\ lowfreq' = LowFreq(wavelength', bandwidth')
          /\ highfreq' = HighFreq(wavelength', bandwidth')
          /\ \A i \in Baselines : baseline_wavelength'[i] = wavelength']_vars

\* ------------------------------------------------------------- C35
\* The switch updates alone, on a connected driver whose hardware has leds or not.
\* The handlers treat every line alike and one line at a time: the updates are those
\* of the first two lines.
FlagLines == {x \in Lines : x < 2}

InitFlags ==
    /\ connected = TRUE
    /\ threadsRunning = TRUE
    /\ timerArmed = TRUE
    /\ lineEnable = [x \in Lines |-> FALSE]
    /\ lineLocation = [x \in Lines |-> 0]
    /\ baselines = [i \in Baselines |-> 0]
    /\ InIntegration = FALSE
    /\ IntegrationRequest = 0
    /\ ExpStart = Garbage
    /\ timeleft = 0
    /\ now = 0
    /\ spc = "idle"
    /\ ret = "none"
    /\ rpc = "loop"
    /\ pkt = 0
    /\ autocorrelations_str = [x \in Lines |-> IF AutoLagSize > 1 THEN <<Garbage>> ELSE <<>>]
    /\ crosscorrelations_str = [i \in Baselines |-> IF CrossLagSize > 1 THEN <<Garbage>> ELSE <<>>]
    /\ plot_str = 0
    /\ plotB = NoSlot
    /\ autocorrelationsB = [x \in Lines |-> NoSlot]
    /\ crosscorrelationsB = [i \in Baselines |-> NoSlot]
    /\ delay = [x \in Lines |-> Garbage]
    /\ totalcounts = [x \in Lines |-> 0]
    /\ totalcorrelations = [i \in Baselines |-> 0]
    /\ crashed = FALSE
    /\ finCur = FALSE
    /\ finAborted = FALSE
    /\ rfin = FALSE
    /\ ser = NoSer
    /\ emitLog = {}
    /\ appended = 0
    /\ hwcmds = <<>>
    /\ passEn = {}
    /\ passDir = 0
    /\ iterDelay = FALSE
    /\ firstUsed = 0
    /\ fitsMayFail = FALSE
    /\ fitsFail = NoFail
    /\ plotSize = 1
    /\ fgAlloc = FALSE
    /\ freed = FALSE
    /\ afterFree = FALSE
    /\ capture = TRUE
    /\ hsRet = "true"
    /\ hsStep = "none"
    /\ auto_dims = ConnectedAutoDims
    /\ cross_dims = ConnectedCrossDims
    /\ plot_buf = GarbageImage(1)
    /\ packet = "none"
    /\ tpc = "idle"
    /\ tx = 0
    /\ reported = [x \in Lines |-> 0]
    /\ consumed = [x \in Lines |-> 0]
    /\ linePower = [x \in Lines |-> FALSE]
    /\ lineActiveLow = [x \in Lines |-> FALSE]
    /\ lineEdgeTrigger = [x \in Lines |-> TRUE]
    /\ lineDifferential = [x \in Lines |-> FALSE]
    /\ leds = [x \in Lines |-> 0]
    /\ has_leds \in BOOLEAN
    /\ wavelength = 1
    /\ bandwidth = 1
    /\ lowfreq = Garbage
    /\ highfreq = Garbage
    /\ baseline_wavelength = [i \in Baselines |-> Garbage]
    /\ pw = 0
    /\ pxx = 0
    /\ pyy = 0
    /\ written = {}
    /\ plotted = FALSE
    /\ blobLog = <<>>

NextFlags ==
    \E x \in FlagLines :
        \/ ISNewSwitchEnable(x)
        \/ ISNewSwitchPower(x)
        \/ ISNewSwitchActiveEdge(x)
        \/ ISNewSwitchEdgeTrigger(x)
        \/ ISNewSwitchDifferential(x)

SpecFlags == InitFlags /\ [][NextFlags]_vars

\* C35: whichever switch of a line is updated, the flags sent are the same function of
\* the line's enable, power, active edge, trigger and differential switches as they
\* stand after the update, and an update that disables the line sends no flag at all.
C35_FlagsSameForEveryUpdate ==
    [][\A x \in Lines :
          (\/ lineEnable'[x] # lineEnable[x]
           \/ linePower'[x] # linePower[x]
           \/ lineActiveLow'[x] # lineActiveLow[x]
           \/ lineEdgeTrigger'[x] # lineEdgeTrigger[x]
           \/ lineDifferential'[x] # lineDifferential[x]) =>
              leds'[x] = IF lineEnable[x] /\ ~lineEnable'[x]
                         THEN 0
                         ELSE (IF lineEnable'[x] \/ has_leds THEN 1 ELSE 0)
                              + (IF linePower'[x] THEN 2 ELSE 0)
                              + (IF lineActiveLow'[x] THEN 4 ELSE 0)
                              + (IF lineEdgeTrigger'[x] THEN 8 ELSE 0)
                              + (IF lineDifferential'[x] THEN 16 ELSE 0)]_vars


\* ------------------------------------------------------------- C36
\* C36: reporting is live whenever the device is connected: the reporting timer is
\* armed in every connected state, so that a tick is still to come; an expiry while
\* disconnected has not stopped the reporting.
C36_ReportingLiveWhenConnected ==
    connected => timerArmed

\* ------------------------------------------------------------- C37
\* the reporting tick, statement by statement, against the reader outside any cycle;
\* the handlers of the main thread run one at a time
NextTotals ==
    \/ tpc = "idle" /\ Handshake
    \/ \E x \in {0, 1} \cap Lines :
          tpc = "idle" /\ pkt = 0 /\ ~lineEnable[x] /\ ISNewSwitchEnable(x)
    \/ TimerHitBegin
    \/ TimerHitReport
    \/ TimerHitReset
    \/ ReaderNotConnected
    \/ ReaderNotReady
    \/ ReaderSleep
    \/ ReaderGetPacket
    \/ ReaderCalcTimeLeft
    \/ ReaderCheck
    \/ ReaderTotals

SpecTotals == Init /\ [][NextTotals]_vars

\* C37: no count is lost or reported twice: for each enabled line, the totals reported
\* so far plus the current total equal the counts of the packets consumed so far (a
\* line whose total has been published and is about to be cleared is left out).
C37_NoCountLostOrDoubled ==
    \A x \in Lines :
        (lineEnable[x] /\ ~(tpc = "reset" /\ tx = x)) =>
            reported[x] + totalcounts[x] = consumed[x]

====
